---------------------------- MODULE Spec2Model ----------------------------
(***************************************************************************)
(* Verification model of codex-mem: the append-only JSONL memory log, its  *)
(* latest-record resolution, the marker-file lock, the derived index and   *)
(* the tool-call handlers, translated from src/src/memory-store.ts,        *)
(* src/src/file-lock.ts, src/unnamed/part_001 (indexer) and the server's   *)
(* handleToolCall.                                                         *)
(***************************************************************************)
EXTENDS Integers, Sequences, FiniteSets, TLC

(***************************************************************************)
(* JavaScript values.  Every value carries its typeof tag so that the      *)
(* code's typeof / truthiness / null checks can be modelled as written.    *)
(* Strings are sequences of tokens: " " is a whitespace character, every   *)
(* other token is a run of non-whitespace characters.  Two kinds of string *)
(* are kept symbolic: the ISO rendering of an instant and a random UUID.   *)
(***************************************************************************)
Undefined == [t |-> "undefined"]
Null == [t |-> "null"]
Str(s) == [t |-> "string", s |-> s]
Num(n) == [t |-> "number", n |-> n]
NaN == [t |-> "number", nan |-> TRUE]
Bool(b) == [t |-> "boolean", b |-> b]
Arr(a) == [t |-> "array", a |-> a]
Obj(o) == [t |-> "object", o |-> o]
Uuid(k) == [t |-> "string", uuid |-> k]

\* typeof v === "string" / "number" / "boolean"; JS reports "object" for
\* null, arrays and objects alike.
TypeOf(v) == IF v.t \in {"null", "array", "object"} THEN "object" ELSE v.t

IsNaN(v) == v.t = "number" /\ "nan" \in DOMAIN v

\* String.prototype.trim on a token sequence.
RECURSIVE TrimLeft(_)
TrimLeft(s) == IF s # <<>> /\ Head(s) = " " THEN TrimLeft(Tail(s)) ELSE s

RECURSIVE TrimRight(_)
TrimRight(s) ==
    IF s # <<>> /\ s[Len(s)] = " " THEN TrimRight(SubSeq(s, 1, Len(s) - 1)) ELSE s

TrimChars(s) == TrimRight(TrimLeft(s))

\* String.prototype.toLowerCase on one token, then on a token sequence.
LowerChar(c) == CASE c = "X" -> "x" [] c = "Y" -> "y" [] c = "C" -> "c" [] OTHER -> c

ToLowerChars(s) == [i \in 1..Len(s) |-> LowerChar(s[i])]

\* s.trim() and s.toLowerCase() on a string value; the symbolic strings have
\* no surrounding whitespace and no upper-case letters.
Trim(v) == IF "s" \in DOMAIN v THEN Str(TrimChars(v.s)) ELSE v

ToLowerCase(v) == IF "s" \in DOMAIN v THEN Str(ToLowerChars(v.s)) ELSE v

\* s.length === 0 for a string value.
IsEmptyStr(v) == "s" \in DOMAIN v /\ v.s = <<>>

\* JavaScript truthiness (the `!x` and `x ? a : b` tests of the code).
Truthy(v) ==
    CASE v.t \in {"undefined", "null"} -> FALSE
      [] v.t = "string" -> ~IsEmptyStr(v)
      [] v.t = "number" -> ~IsNaN(v) /\ v.n # 0
      [] v.t = "boolean" -> v.b
      [] OTHER -> TRUE

\* new Date(ms).toISOString() and Date.parse: an instant renders to a string
\* that parses back to the instant; every other string parses to NaN.
ToISOString(ms) == [t |-> "string", iso |-> ms]

DateParse(v) == IF v.t = "string" /\ "iso" \in DOMAIN v THEN Num(v.iso) ELSE NaN

\* obj[key] of a JavaScript object held as a function from keys to values.
GetField(o, k) == IF k \in DOMAIN o THEN o[k] ELSE Undefined

(***************************************************************************)
(* schema: normalisation and validation (src/src/memory-store.ts 403-463). *)
(* importance is held in hundredths: 0.5 is 50, the range [0,1] is 0..100. *)
(***************************************************************************)
normalizeScope(scope) == Trim(scope)

normalizeTag(tag) == ToLowerCase(Trim(tag))

\* Array.from(new Set(xs)): first occurrences, in order.
RECURSIVE Dedupe(_)
Dedupe(xs) ==
    IF xs = <<>> THEN <<>>
    ELSE LET init == Dedupe(SubSeq(xs, 1, Len(xs) - 1))
             last == xs[Len(xs)]
         IN  IF \E i \in 1..Len(init) : init[i] = last THEN init ELSE Append(init, last)

normalizeTags(tags) ==
    Dedupe(SelectSeq([i \in 1..Len(tags) |-> normalizeTag(tags[i])],
                     LAMBDA tag : ~IsEmptyStr(tag)))

clampImportance(value, fallback) ==
    IF value.t # "number" \/ IsNaN(value) THEN fallback
    ELSE IF value.n < 0 THEN Num(0)
    ELSE IF value.n > 100 THEN Num(100)
    ELSE value

isRecord(value) == value.t = "object"

requiredStringFields == <<"id", "createdAt", "updatedAt", "scope", "content">>

\* validateMemoryItem(value).ok
validateMemoryItem(value) ==
    /\ isRecord(value)
    /\ \A i \in 1..Len(requiredStringFields) :
          LET f == GetField(value.o, requiredStringFields[i])
          IN  f.t = "string" /\ ~IsEmptyStr(Trim(f))
    /\ LET tags == GetField(value.o, "tags")
       IN  tags.t = "array" /\ \A i \in 1..Len(tags.a) : tags.a[i].t = "string"
    /\ GetField(value.o, "deleted").t = "boolean"
    /\ GetField(value.o, "importance").t = "number"
    /\ LET summary == GetField(value.o, "summary")
       IN  summary.t = "null" \/ summary.t = "string"
    /\ LET metadata == GetField(value.o, "metadata")
       IN  metadata.t = "null" \/ isRecord(metadata)

(***************************************************************************)
(* The log file: a sequence of newline-terminated lines.  A line is blank, *)
(* undecodable text, or the JSON text of a value.                          *)
(***************************************************************************)
BlankLine == [kind |-> "blank"]
BadLine == [kind |-> "bad"]
JsonLine(v) == [kind |-> "json", value |-> v]

\* JSON.stringify of a value: keys holding undefined are dropped and NaN is
\* written as null; JSON.parse reads the text back.
RECURSIVE JsonValue(_)
JsonValue(v) ==
    CASE IsNaN(v) -> Null
      [] v.t = "array" -> Arr([i \in 1..Len(v.a) |-> JsonValue(v.a[i])])
      [] v.t = "object" ->
            LET keep == {k \in DOMAIN v.o : v.o[k].t # "undefined"}
            IN  Obj([k \in keep |-> JsonValue(v.o[k])])
      [] OTHER -> v

JSONStringify(item) == JsonLine(JsonValue(Obj(item)))

\* parseLine(line).item: null for a blank line, for text JSON.parse rejects
\* and for a value the schema rejects.
parseLine(line) ==
    IF line.kind = "json" /\ validateMemoryItem(line.value) THEN line.value.o ELSE Null

\* parseLine(line).error is set: a diagnostic is recorded for the line.
parseLineError(line) == line.kind # "blank" /\ parseLine(line) = Null

getTimestamp(item) ==
    LET updated == DateParse(item.updatedAt)
        created == DateParse(item.createdAt)
    IN  IF ~IsNaN(updated) THEN updated.n
        ELSE IF ~IsNaN(created) THEN created.n
        ELSE 0

\* readAllItems(memoryFile).items for a file holding `content`.
readAllItems(content) ==
    LET parsed == [i \in 1..Len(content) |-> parseLine(content[i])]
    IN  SelectSeq(parsed, LAMBDA item : item # Null)

\* Index of the entry for `id` in a Map held as a sequence of items, or 0.
MapIndex(m, id) ==
    IF \E i \in 1..Len(m) : m[i].id = id
    THEN CHOOSE i \in 1..Len(m) : m[i].id = id
    ELSE 0

\* Mutant of Replaces: a strict comparison, so that the first of two records
\* with equal timestamps is kept.
ReplacesStrict(item, current) == getTimestamp(item) > getTimestamp(current)

\* The comparison of selectLatestItems: the scanned item replaces the kept
\* one when its timestamp is greater or equal.
Replaces(item, current) == getTimestamp(item) >= getTimestamp(current)

\* selectLatestItems: a Map keyed by id, iterated in insertion order; a set
\* on an existing key keeps the key's position.
RECURSIVE selectLatestItems(_)
selectLatestItems(items) ==
    IF items = <<>> THEN <<>>
    ELSE LET m == selectLatestItems(SubSeq(items, 1, Len(items) - 1))
             item == items[Len(items)]
             at == MapIndex(m, item.id)
         IN  IF at = 0 THEN Append(m, item)
             ELSE IF Replaces(item, m[at]) THEN [m EXCEPT ![at] = item]
             ELSE m

readLatestItems(content) == selectLatestItems(readAllItems(content))

\* latest.items.find((item) => item.id === id) ?? null
FindById(items, id) ==
    IF MapIndex(items, id) = 0 THEN Null ELSE items[MapIndex(items, id)]

getMemoryItem(content, id) == FindById(readLatestItems(content), id)


(***************************************************************************)
(* indexer (src/unnamed/part_001).  A bucket map is a function from keys   *)
(* to id lists; byScopeTag is a function from scopes to bucket maps.       *)
(***************************************************************************)
MEMORY_INDEX_VERSION == 1

EmptyMap == [k \in {} |-> <<>>]

createEmptyIndex(nowMs) ==
    [version |-> MEMORY_INDEX_VERSION, updatedAt |-> ToISOString(nowMs),
     byScope |-> EmptyMap, byTag |-> EmptyMap, byScopeTag |-> EmptyMap]

\* m[k] ?? []
Bucket(m, k) == IF k \in DOMAIN m THEN m[k] ELSE <<>>

\* m[k] ?? {}
SubMap(m, k) == IF k \in DOMAIN m THEN m[k] ELSE EmptyMap

MapSet(m, k, v) == [x \in DOMAIN m \cup {k} |-> IF x = k THEN v ELSE m[x]]

\* Every bucket filtered of `id`, emptied buckets deleted.
RemoveFromBuckets(m, id) ==
    LET filtered == [k \in DOMAIN m |-> SelectSeq(m[k], LAMBDA existing : existing # id)]
        keep == {k \in DOMAIN m : filtered[k] # <<>>}
    IN  [k \in keep |-> filtered[k]]

\* Mutant of removeIdFromIndex: the third loop, over byScopeTag, is missing.
removeIdFromIndexTwoMaps(idx, id) ==
    [idx EXCEPT !.byScope = RemoveFromBuckets(idx.byScope, id),
                !.byTag = RemoveFromBuckets(idx.byTag, id)]

removeIdFromIndex(idx, id) ==
    LET inner == [scope \in DOMAIN idx.byScopeTag |->
                     RemoveFromBuckets(idx.byScopeTag[scope], id)]
        keep == {scope \in DOMAIN inner : DOMAIN inner[scope] # {}}
    IN  [idx EXCEPT !.byScope = RemoveFromBuckets(idx.byScope, id),
                    !.byTag = RemoveFromBuckets(idx.byTag, id),
                    !.byScopeTag = [scope \in keep |-> inner[scope]]]

\* The loop of addIdToIndex over item.tags, from the first tag on.
RECURSIVE AddTags(_, _, _)
AddTags(idx, item, tags) ==
    IF tags = <<>> THEN idx
    ELSE LET tag == Head(tags)
             sub == SubMap(idx.byScopeTag, item.scope)
             next == [idx EXCEPT
                        !.byTag = MapSet(idx.byTag, tag, Append(Bucket(idx.byTag, tag), item.id)),
                        !.byScopeTag = MapSet(idx.byScopeTag, item.scope,
                                              MapSet(sub, tag, Append(Bucket(sub, tag), item.id)))]
         IN  AddTags(next, item, Tail(tags))

addIdToIndex(idx, item) ==
    AddTags([idx EXCEPT !.byScope = MapSet(idx.byScope, item.scope,
                                           Append(Bucket(idx.byScope, item.scope), item.id))],
            item, item.tags.a)

\* itemsById.get(id): the last item set under the id, or undefined.
ItemsByIdGet(items, id) ==
    IF \E i \in 1..Len(items) : items[i].id = id
    THEN items[CHOOSE i \in 1..Len(items) :
                  items[i].id = id /\ \A j \in (i + 1)..Len(items) : items[j].id # id]
    ELSE Undefined

\* aTime of sortByUpdated: the parsed updatedAt of an affected item, 0 for an
\* id that is not among the affected items.
SortTime(items, id) ==
    LET item == ItemsByIdGet(items, id)
    IN  IF item = Undefined THEN Num(0) ELSE DateParse(item.updatedAt)

\* The comparator (a, b) => bTime - aTime is positive: a sorts after b.  A NaN
\* difference counts as 0.
SortsAfter(items, a, b) ==
    LET aTime == SortTime(items, a)
        bTime == SortTime(items, b)
    IN  ~IsNaN(aTime) /\ ~IsNaN(bTime) /\ bTime.n - aTime.n > 0

\* Array.prototype.sort is stable: insertion of each id after the last id
\* that does not sort after it.
RECURSIVE sortByUpdated(_, _)
sortByUpdated(items, ids) ==
    IF ids = <<>> THEN <<>>
    ELSE LET sorted == sortByUpdated(items, SubSeq(ids, 1, Len(ids) - 1))
             x == ids[Len(ids)]
             stay == {j \in 1..Len(sorted) : ~SortsAfter(items, sorted[j], x)}
             at == IF stay = {} THEN 0 ELSE CHOOSE j \in stay : \A k \in stay : k <= j
         IN  SubSeq(sorted, 1, at) \o <<x>> \o SubSeq(sorted, at + 1, Len(sorted))

sortIndex(idx, items) ==
    [idx EXCEPT
       !.byScope = [k \in DOMAIN idx.byScope |-> sortByUpdated(items, idx.byScope[k])],
       !.byTag = [k \in DOMAIN idx.byTag |-> sortByUpdated(items, idx.byTag[k])],
       !.byScopeTag = [scope \in DOMAIN idx.byScopeTag |->
                          [tag \in DOMAIN idx.byScopeTag[scope] |->
                              sortByUpdated(items, idx.byScopeTag[scope][tag])]]]

\* loadIndex on the index file: a missing file is first written as an empty
\* index; text that is not JSON (a document without fields here) and a
\* document of another version are treated as empty.  A document of the
\* right version is returned as parsed, whatever else it holds.
loadIndex(indexFile, nowMs) ==
    IF ~indexFile.exists THEN createEmptyIndex(nowMs)
    ELSE IF "version" \notin DOMAIN indexFile.doc THEN createEmptyIndex(nowMs)
    ELSE IF indexFile.doc.version # MEMORY_INDEX_VERSION THEN createEmptyIndex(nowMs)
    ELSE indexFile.doc

\* saveIndex: the document written to the index file.
saveIndex(idx, nowMs) == [exists |-> TRUE, doc |-> [idx EXCEPT !.updatedAt = ToISOString(nowMs)]]

\* The loop of updateIndexFromItems: remove each item's id, add it back
\* unless the item is soft-deleted.
RECURSIVE PatchIndex(_, _)
PatchIndex(idx, items) ==
    IF items = <<>> THEN idx
    ELSE LET item == Head(items)
             removed == removeIdFromIndex(idx, item.id)
         IN  PatchIndex(IF Truthy(item.deleted) THEN removed
                        ELSE addIdToIndex(removed, item),
                        Tail(items))

\* updateIndexFromItems(indexFile, items): the index file it leaves.
updateIndexFromItems(indexFile, items, nowMs) ==
    saveIndex(sortIndex(PatchIndex(loadIndex(indexFile, nowMs), items), items), nowMs)

\* The keys that Object.prototype answers for; "constructor" stands for them.
Inherited(k) == k = Str(<<"constructor">>)

\* index.byScope / byTag / byScopeTag is undefined in the parsed document.
MappingsMissing(idx) == ~({"byScope", "byTag", "byScopeTag"} \subseteq DOMAIN idx)

\* m[k] is a function of Object.prototype: .push on it, and new Set(m[k]),
\* throw a TypeError.
NotAnArray(m, k) == Inherited(k) /\ k \notin DOMAIN m

\* addIdToIndex throws: the scope, or one of the tags, finds an inherited
\* member where it expects a bucket.
addIdThrows(idx, item) ==
    \/ NotAnArray(idx.byScope, item.scope)
    \/ \E i \in 1..Len(item.tags.a) : NotAnArray(idx.byTag, item.tags.a[i])

\* The loop of updateIndexFromItems throws at one of the items.
RECURSIVE PatchIndexThrows(_, _)
PatchIndexThrows(idx, items) ==
    IF items = <<>> THEN FALSE
    ELSE LET item == Head(items)
             removed == removeIdFromIndex(idx, item.id)
         IN  IF Truthy(item.deleted) THEN PatchIndexThrows(removed, Tail(items))
             ELSE \/ addIdThrows(removed, item)
                  \/ PatchIndexThrows(addIdToIndex(removed, item), Tail(items))

\* updateIndexFromItems throws a TypeError and saves nothing.
updateIndexThrows(indexFile, items, nowMs) ==
    LET idx == loadIndex(indexFile, nowMs)
    IN  MappingsMissing(idx) \/ PatchIndexThrows(idx, items)

\* ensureIndexFile: an empty index is written where the path has no file.
ensureIndexFile(indexFile, nowMs) ==
    IF indexFile.exists THEN indexFile
    ELSE [exists |-> TRUE, doc |-> createEmptyIndex(nowMs)]

\* What a call of updateIndexFromItems leaves in the index file: a call that
\* throws has created a missing file and saved nothing.
indexAfterUpdate(indexFile, items, nowMs) ==
    IF updateIndexThrows(indexFile, items, nowMs) THEN ensureIndexFile(indexFile, nowMs)
    ELSE updateIndexFromItems(indexFile, items, nowMs)

(***************************************************************************)
(* State.                                                                  *)
(*   now       Date.now(), in milliseconds                                 *)
(*   nextUuid  number of identifiers randomUUID has handed out             *)
(*   log       content of memoryFile (Missing when the path has no file)   *)
(*   tmpFile   content of `${memoryFile}.tmp`                              *)
(*   bakFile   content of the newest `${memoryFile}.bak.*`                 *)
(*   corruptFile  content of the newest `${memoryFile}.corrupt.*.jsonl`    *)
(*   index     content of indexFile                                        *)
(*   lock      the marker `${memoryFile}.lock`                             *)
(*   last      the last completed tool call: its name and what it returned *)
(*             or threw                                                    *)
(*   resolved  the value returned by the last readLatestItems call         *)
(*   pc, loc   position and local variables of each process                *)
(***************************************************************************)
VARIABLES now, nextUuid, log, tmpFile, bakFile, corruptFile, index, lock, last, resolved, pc, loc

vars == <<now, nextUuid, log, tmpFile, bakFile, corruptFile, index, lock, last, resolved, pc, loc>>

Missing == [exists |-> FALSE]
File(lines) == [exists |-> TRUE, lines |-> lines]
NoMarker == [kind |-> "none"]
NoCall == [op |-> "none"]
NotResolved == [done |-> FALSE]
NoLocals == [op |-> "none"]

\* Text of a file for a reader: fs.readFile after ensureFile sees "" where
\* the path had no file.
FileContent(f) == IF f.exists THEN f.lines ELSE <<>>

Procs == {1, 2}

(***************************************************************************)
(* memory-store writes (src/src/memory-store.ts 154-204).                  *)
(***************************************************************************)
\* Mutant of appendItem: fs.writeFile in place of fs.appendFile.
appendItemOverwrite(file, item) == File(<<JSONStringify(item)>>)

\* ensureFile followed by fs.appendFile of `${JSON.stringify(item)}\n`.
appendItem(file, item) == File(Append(FileContent(file), JSONStringify(item)))

\* x ?? null
OrNull(v) == IF v.t = "undefined" THEN Null ELSE v

\* The record addMemoryItem builds from its input.
addMemoryItem(input, id, nowMs) ==
    [id |-> id,
     createdAt |-> ToISOString(nowMs),
     updatedAt |-> ToISOString(nowMs),
     scope |-> normalizeScope(input.scope),
     tags |-> Arr(normalizeTags(input.tags.a)),
     content |-> input.content,
     summary |-> OrNull(GetField(input, "summary")),
     metadata |-> OrNull(input.metadata),
     importance |-> clampImportance(input.importance, Num(50)),
     deleted |-> Bool(FALSE)]

\* normalizeScope / normalizeTags of updateMemoryItem call .trim() and .map()
\* on the patch value: a truthy value of another type raises a TypeError.
PatchThrows(patch) ==
    LET scope == GetField(patch, "scope")
        tags == GetField(patch, "tags")
    IN  \/ Truthy(scope) /\ scope.t # "string"
        \/ Truthy(tags) /\ tags.t # "array"
        \/ tags.t = "array" /\ \E i \in 1..Len(tags.a) : tags.a[i].t # "string"

\* { ...existing, ...patch }
Spread(existing, patch) ==
    [k \in DOMAIN existing \cup DOMAIN patch |->
        IF k \in DOMAIN patch THEN patch[k] ELSE existing[k]]

\* The record updateMemoryItem builds from the current record and the patch.
MergePatch(existing, patch, nowMs) ==
    LET scope == GetField(patch, "scope")
        tags == GetField(patch, "tags")
        summary == GetField(patch, "summary")
        metadata == GetField(patch, "metadata")
        importance == GetField(patch, "importance")
        deleted == GetField(patch, "deleted")
    IN  [Spread(existing, patch) EXCEPT
           !["scope"] = IF Truthy(scope) THEN normalizeScope(scope) ELSE existing.scope,
           !["tags"] = IF Truthy(tags) THEN Arr(normalizeTags(tags.a)) ELSE existing.tags,
           !["summary"] = IF summary.t # "undefined" THEN summary ELSE existing.summary,
           !["metadata"] = IF metadata.t # "undefined" THEN metadata ELSE existing.metadata,
           !["importance"] = IF importance.t # "undefined"
                             THEN clampImportance(importance, existing.importance)
                             ELSE existing.importance,
           !["deleted"] = IF deleted.t # "undefined" THEN deleted ELSE existing.deleted,
           !["updatedAt"] = ToISOString(nowMs)]

(***************************************************************************)
(* handleToolCall, one call run to completion by a single process          *)
(* (src/specifications.md 595-666).                                        *)
(***************************************************************************)
Ok(item) == [ok |-> TRUE, item |-> item]
Err(message) == [ok |-> FALSE, error |-> message]

ErrAddArgs == "scope and content are required"
ErrIdRequired == "id is required"
ErrUpdateArgs == "id and patch are required"
ErrNotFound == "memory item not found"
ErrType == "TypeError"

\* typeof x === "string" ? x : ""
StringOrEmpty(v) == IF v.t = "string" THEN v ELSE Str(<<>>)

\* Mutant of AddRejects: the content is not checked.
AddRejectsScopeOnly(args) == ~Truthy(StringOrEmpty(GetField(args, "scope")))

\* The validation of memory.add: the call is rejected when it holds.
AddRejects(args) ==
    \/ ~Truthy(StringOrEmpty(GetField(args, "scope")))
    \/ ~Truthy(StringOrEmpty(GetField(args, "content")))

\* The input memory.add hands to addMemoryItem.
AddInput(args) ==
    LET tags == GetField(args, "tags")
        metadata == GetField(args, "metadata")
        importance == GetField(args, "importance")
    IN  [scope |-> normalizeScope(StringOrEmpty(GetField(args, "scope"))),
         tags |-> Arr(normalizeTags(IF tags.t = "array" THEN tags.a ELSE <<>>)),
         content |-> StringOrEmpty(GetField(args, "content")),
         metadata |-> IF TypeOf(metadata) = "object" THEN metadata ELSE Null,
         importance |-> IF importance.t = "number" THEN importance ELSE Undefined]

\* normalizeTags(tags) of memory.add calls tag.trim() on every element.
AddThrows(args) ==
    LET tags == GetField(args, "tags")
    IN  tags.t = "array" /\ \E i \in 1..Len(tags.a) : tags.a[i].t # "string"

\* The validation of memory.update: the call is rejected when it holds.
UpdateRejects(args) ==
    \/ ~Truthy(StringOrEmpty(GetField(args, "id")))
    \/ ~Truthy(GetField(args, "patch"))

\* The validation of memory.get and memory.delete.
IdRejects(args) == ~Truthy(StringOrEmpty(GetField(args, "id")))

\* The fields of the patch object of a memory.update call; spreading a
\* truthy value that is not an object contributes no own property here.
PatchFields(patch) == IF patch.t = "object" THEN patch.o ELSE EmptyMap

(***************************************************************************)
(* Resolution of the latest view over arbitrary log contents.              *)
(***************************************************************************)
MaxLines == 3

SampleIds == {Uuid(1), Uuid(2)}
SampleUpdatedAt == {ToISOString(-1), ToISOString(2), Str(<<"x">>)}
SampleCreatedAt == {ToISOString(1), Str(<<"x">>)}
SampleContent == {Str(<<"c">>), Str(<<"x">>)}

SampleItem(id, createdAt, updatedAt, content) ==
    [id |-> id, createdAt |-> createdAt, updatedAt |-> updatedAt,
     scope |-> Str(<<"s">>), tags |-> Arr(<<>>), content |-> content,
     summary |-> Null, metadata |-> Null, importance |-> Num(50),
     deleted |-> Bool(FALSE)]

SampleLines ==
    {BadLine} \cup
    {JSONStringify(SampleItem(id, c, u, x)) :
        id \in SampleIds, c \in SampleCreatedAt, u \in SampleUpdatedAt, x \in SampleContent}

SampleLogs == {File(lines) : lines \in UNION {[1..n -> SampleLines] : n \in 0..MaxLines}}

InitLatest ==
    /\ now = 0
    /\ nextUuid = 0
    /\ log \in SampleLogs
    /\ tmpFile = Missing
    /\ bakFile = Missing
    /\ corruptFile = Missing
    /\ index = Missing
    /\ lock = NoMarker
    /\ last = NoCall
    /\ resolved = NotResolved
    /\ pc = [p \in Procs |-> "idle"]
    /\ loc = [p \in Procs |-> NoLocals]

\* readLatestItems(memoryFile) on the file as it stands.
ResolveLatest ==
    /\ resolved = NotResolved
    /\ resolved' = [done |-> TRUE, items |-> readLatestItems(FileContent(log))]
    /\ UNCHANGED <<now, nextUuid, log, tmpFile, bakFile, corruptFile, index, lock, last, pc, loc>>

NextLatest == ResolveLatest

SpecLatest == InitLatest /\ [][NextLatest]_vars

\* The resolved timestamp as the data model states it: updatedAt, else
\* createdAt when updatedAt does not parse, else 0.
C3_ResolvedTs(item) ==
    IF "iso" \in DOMAIN item.updatedAt THEN item.updatedAt.iso
    ELSE IF "iso" \in DOMAIN item.createdAt THEN item.createdAt.iso
    ELSE 0

\* C3: resolve-latest returns exactly one record per id of the log, and it
\* is the record of that id with the greatest resolved timestamp, the one
\* latest in the log among those that share the greatest timestamp.
C3_LatestWins ==
    resolved.done =>
        LET items == readAllItems(FileContent(log))
            out == resolved.items
            ids == {items[i].id : i \in 1..Len(items)}
        IN  /\ {out[i].id : i \in 1..Len(out)} = ids
            /\ Len(out) = Cardinality(ids)
            /\ \A k \in 1..Len(out) :
                  \E i \in 1..Len(items) :
                     /\ items[i] = out[k]
                     /\ \A j \in 1..Len(items) :
                           items[j].id = out[k].id =>
                              \/ C3_ResolvedTs(items[j]) < C3_ResolvedTs(items[i])
                              \/ C3_ResolvedTs(items[j]) = C3_ResolvedTs(items[i]) /\ j <= i

\* A log where two records of one id tie on the greatest timestamp and a
\* third record of that id falls back to createdAt, resolved.
C3_Witness ==
    /\ resolved.done
    /\ LET items == readAllItems(FileContent(log))
       IN  /\ Len(items) = 3
           /\ items[1].id = items[2].id /\ items[2].id = items[3].id
           /\ items[1] # items[2]
           /\ C3_ResolvedTs(items[1]) = 2 /\ C3_ResolvedTs(items[2]) = 2
           /\ C3_ResolvedTs(items[3]) = 1
           /\ resolved.items = <<items[2]>>


(***************************************************************************)
(* Tool calls issued one at a time by a single process.  The marker file   *)
(* is created and removed inside each writing call, so it is absent        *)
(* between calls.                                                          *)
(***************************************************************************)
MaxLog == 2
MaxTime == 1

BaseAddArgs ==
    [scope |-> Str(<<"s">>), content |-> Str(<<"c">>), tags |-> Undefined,
     metadata |-> Undefined, importance |-> Undefined]

SampleAddArgs ==
    {[BaseAddArgs EXCEPT !.scope = v] :
        v \in {Undefined, Str(<<>>), Str(<<" ">>), Str(<<" ", "s", " ">>)}}
    \cup {[BaseAddArgs EXCEPT !.content = v] : v \in {Undefined, Str(<<>>)}}
    \cup {[BaseAddArgs EXCEPT !.tags = v] :
            v \in {Arr(<<Str(<<"X">>), Str(<<" ", "x">>), Str(<<" ">>), Str(<<"y">>)>>)}}
    \cup {[BaseAddArgs EXCEPT !.metadata = v] : v \in {Obj([k |-> Num(1)])}}
    \cup {[BaseAddArgs EXCEPT !.importance = v] : v \in {Num(150)}}

SampleIdArgs == {Undefined, Str(<<"x">>), Uuid(1), Uuid(2)}

SamplePatches ==
    {[content |-> Str(<<"x">>)],
     [content |-> Str(<<>>)],
     [scope |-> Str(<<" ", "t">>)],
     [scope |-> Str(<<>>)],
     [tags |-> Arr(<<Str(<<"Y">>), Str(<<"y", " ">>)>>)],
     [metadata |-> Null],
     [importance |-> Num(150)],
     [id |-> Str(<<"x">>), createdAt |-> ToISOString(9)]}

SampleUpdateArgs ==
    {[id |-> Uuid(1), patch |-> Obj(patch)] : patch \in SamplePatches}
    \cup {[id |-> id, patch |-> Obj([content |-> Str(<<"x">>)])] : id \in SampleIdArgs}
    \cup {[id |-> Uuid(1), patch |-> patch] : patch \in {Undefined, Null}}
    \cup {[id |-> Str(<<>>), patch |-> Obj([scope |-> Num(5)])]}

SampleGetArgs == [id : {Undefined, Uuid(1), Uuid(2)}]

InitSeq ==
    /\ now = 0
    /\ nextUuid = 0
    /\ log = Missing
    /\ tmpFile = Missing
    /\ bakFile = Missing
    /\ corruptFile = Missing
    /\ index = Missing
    /\ lock = NoMarker
    /\ last = NoCall
    /\ resolved = NotResolved
    /\ pc = [p \in Procs |-> "idle"]
    /\ loc = [p \in Procs |-> NoLocals]

\* What a call leaves in `last`.
Call(name, args, result) == [op |-> name, result |-> result]

\* Mutant of ensureFile: the empty file is written without the access check.
ensureFileAlways(file) == File(<<>>)

\* ensureFile: an empty file is written where the path has none.
ensureFile(file) == IF file.exists THEN file ELSE File(<<>>)

\* A call that throws before it touches a file.
Rejected(name, args, message) ==
    /\ last' = Call(name, args, Err(message))
    /\ UNCHANGED <<now, nextUuid, log, tmpFile, bakFile, corruptFile, index, lock, resolved, pc, loc>>

\* withFileLock around a critical section that runs with the marker absent
\* at entry: the marker is created, the section runs, the marker is removed.
LockedSection == lock = NoMarker /\ lock' = NoMarker

\* case "memory.add"
HandleAdd(args) ==
    IF AddRejects(args) THEN Rejected("memory.add", args, ErrAddArgs)
    ELSE IF AddThrows(args) THEN Rejected("memory.add", args, ErrType)
    ELSE /\ Len(FileContent(log)) < MaxLog
         /\ LET item == addMemoryItem(AddInput(args), Uuid(nextUuid + 1), now)
            IN  /\ LockedSection
                /\ log' = appendItem(log, item)
                /\ index' = indexAfterUpdate(index, <<item>>, now)
                /\ last' = Call("memory.add", args,
                                IF updateIndexThrows(index, <<item>>, now)
                                THEN Err(ErrType) ELSE Ok(item))
         /\ nextUuid' = nextUuid + 1
         /\ UNCHANGED <<now, tmpFile, bakFile, corruptFile, resolved, pc, loc>>

\* case "memory.get"
HandleGet(args) ==
    IF IdRejects(args) THEN Rejected("memory.get", args, ErrIdRequired)
    ELSE /\ log' = ensureFile(log)
         /\ last' = Call("memory.get", args, Ok(getMemoryItem(FileContent(log), args.id)))
         /\ UNCHANGED <<now, nextUuid, tmpFile, bakFile, corruptFile, index, lock, resolved, pc, loc>>

\* updateMemoryItem followed by the handler's index update, shared by
\* memory.update and memory.delete.
UpdateCall(name, args, id, patch) ==
    LET existing == getMemoryItem(FileContent(log), id)
    IN  IF existing = Null \/ PatchThrows(patch)
        THEN /\ log' = ensureFile(log)
             /\ last' = Call(name, args, Err(IF existing = Null THEN ErrNotFound ELSE ErrType))
             /\ UNCHANGED <<now, nextUuid, tmpFile, bakFile, corruptFile, index, lock, resolved, pc, loc>>
        ELSE /\ Len(FileContent(log)) < MaxLog
             /\ LET updated == MergePatch(existing, patch, now)
                IN  /\ LockedSection
                    /\ log' = appendItem(log, updated)
                    /\ index' = indexAfterUpdate(index, <<updated>>, now)
                    /\ last' = Call(name, args,
                                    IF updateIndexThrows(index, <<updated>>, now)
                                    THEN Err(ErrType) ELSE Ok(updated))
             /\ UNCHANGED <<now, nextUuid, tmpFile, bakFile, corruptFile, resolved, pc, loc>>

\* case "memory.update"
HandleUpdate(args) ==
    IF UpdateRejects(args) THEN Rejected("memory.update", args, ErrUpdateArgs)
    ELSE UpdateCall("memory.update", args, args.id, PatchFields(args.patch))

\* case "memory.delete"
HandleDelete(args) ==
    IF IdRejects(args) THEN Rejected("memory.delete", args, ErrIdRequired)
    ELSE UpdateCall("memory.delete", args, args.id, [deleted |-> Bool(TRUE)])

\* The clock advances between calls.
Tick ==
    /\ now < MaxTime
    /\ now' = now + 1
    /\ UNCHANGED <<nextUuid, log, tmpFile, bakFile, corruptFile, index, lock, last, resolved, pc, loc>>

NextSeq ==
    \/ \E args \in SampleAddArgs : HandleAdd(args)
    \/ \E args \in SampleGetArgs : HandleGet(args)
    \/ \E args \in SampleUpdateArgs : HandleUpdate(args)
    \/ \E args \in SampleGetArgs : HandleDelete(args)
    \/ Tick

SpecSeq == InitSeq /\ [][NextSeq]_vars


\* A step of one of the three writing calls.
WriteCall ==
    \/ last'.op = "memory.add" /\ \E args \in SampleAddArgs : HandleAdd(args)
    \/ last'.op = "memory.update" /\ \E args \in SampleUpdateArgs : HandleUpdate(args)
    \/ last'.op = "memory.delete" /\ \E args \in SampleGetArgs : HandleDelete(args)

\* C5: an add, update or delete keeps every line of the log unchanged and in
\* place; it appends exactly one line when it returns an item and none when
\* it is refused.
C5_AppendOnly ==
    [][last'.op \in {"memory.add", "memory.update", "memory.delete"} =>
          LET old == FileContent(log)
              new == FileContent(log')
          IN  \/ /\ Len(new) >= Len(old)
                 /\ SubSeq(new, 1, Len(old)) = old
                 /\ Len(new) = Len(old) + (IF last'.result.ok THEN 1 ELSE 0)
              \/ ~WriteCall]_vars

\* An update has appended a second line behind the record it revises.
C5_Witness ==
    /\ last.op = "memory.update"
    /\ last.result.ok
    /\ Len(FileContent(log)) = 2
    /\ FileContent(log)[1] # FileContent(log)[2]

\* The ids of the records held by the lines of a file.
RecordIds(content) ==
    LET items == readAllItems(content)
    IN  {items[i].id : i \in 1..Len(items)}

ContentFields == {"scope", "tags", "content", "metadata", "importance"}

\* C6: after an accepted add, the returned id is new to the log and a get of
\* it returns an item with the same scope, tags, content, metadata and
\* importance.
C6_AddThenGet ==
    [][\A args \in SampleAddArgs :
          HandleAdd(args) /\ last'.result.ok =>
             LET item == last'.result.item
                 got == getMemoryItem(FileContent(log'), item.id)
             IN  /\ item.id \notin RecordIds(FileContent(log))
                 /\ got # Null
                 /\ \A f \in ContentFields : got[f] = item[f]]_vars

PatchableFields == {"scope", "tags", "content", "summary", "metadata", "importance", "deleted"}

\* The value the claim gives a field that is present in the patch.
C7_Patched(existing, patch, f) ==
    CASE f = "scope" -> normalizeScope(patch[f])
      [] f = "tags" -> Arr(normalizeTags(patch[f].a))
      [] f = "importance" -> clampImportance(patch[f], existing.importance)
      [] OTHER -> patch[f]

\* C7: update appends a record that keeps every field absent from the patch,
\* takes the (normalized, clamped) patch value of every field present, null
\* included, and resolve-latest then returns that record.
C7_UpdateMerges ==
    [][\A args \in SampleUpdateArgs :
          HandleUpdate(args) /\ last'.result.ok =>
             LET patch == PatchFields(args.patch)
                 existing == getMemoryItem(FileContent(log), args.id)
                 merged == last'.result.item
                 new == FileContent(log')
             IN  /\ new[Len(new)] = JSONStringify(merged)
                 /\ \A f \in PatchableFields :
                       merged[f] = IF f \in DOMAIN patch
                                   THEN C7_Patched(existing, patch, f)
                                   ELSE existing[f]
                 /\ getMemoryItem(new, args.id) = merged]_vars

\* C8: the record an update appends has the id and the createdAt of the
\* record it revises.
C8_IdentityKept ==
    [][\A args \in SampleUpdateArgs :
          HandleUpdate(args) /\ last'.result.ok =>
             LET existing == getMemoryItem(FileContent(log), args.id)
                 merged == last'.result.item
             IN  merged.id = existing.id /\ merged.createdAt = existing.createdAt]_vars

ValidationErrors == {ErrAddArgs, ErrIdRequired, ErrUpdateArgs}

\* The id is absent from the latest view of the log.
AbsentId(id) ==
    LET latest == readLatestItems(FileContent(log))
    IN  \A i \in 1..Len(latest) : latest[i].id # id

\* The outcome C9 states for the step: the not-found signal, the log content
\* and the index as they were.
C9_NotFoundOutcome ==
    /\ last'.result = Err(ErrNotFound)
    /\ ErrNotFound \notin ValidationErrors
    /\ FileContent(log') = FileContent(log)
    /\ index' = index

\* C9: an update or delete of an id absent from the latest view returns the
\* not-found signal and leaves the log content and the index unchanged.
C9_NotFound ==
    [][\/ last'.op \notin {"memory.update", "memory.delete"}
       \/ C9_NotFoundOutcome
       \/ /\ \A args \in SampleUpdateArgs :
                ~(/\ last'.op = "memory.update"
                  /\ ~UpdateRejects(args)
                  /\ AbsentId(args.id)
                  /\ HandleUpdate(args))
          /\ \A args \in SampleGetArgs :
                ~(/\ last'.op = "memory.delete"
                  /\ ~IdRejects(args)
                  /\ AbsentId(args.id)
                  /\ HandleDelete(args))]_vars

\* A delete of an unknown id was refused while the log held a record and the
\* index file existed.
C9_Witness ==
    /\ last.op = "memory.delete"
    /\ last.result = Err(ErrNotFound)
    /\ Len(FileContent(log)) >= 1
    /\ index.exists

\* The argument is missing or empty.
NoValue(v) == v.t \in {"undefined", "null"} \/ IsEmptyStr(v)

\* The outcome C10 states for the step: the validation error, no file
\* written and no marker.
C10_RejectedOutcome(message) ==
    /\ last'.result = Err(message)
    /\ message \in ValidationErrors
    /\ log' = log
    /\ index' = index
    /\ tmpFile' = tmpFile /\ bakFile' = bakFile /\ corruptFile' = corruptFile
    /\ lock' = NoMarker

\* C10: add with an empty scope or content, update with a missing id or
\* patch, get and delete with a missing id fail with a validation error and
\* write nothing.
C10_ValidationFirst ==
    [][last'.op # "none" =>
          /\ \A args \in SampleAddArgs :
                \/ C10_RejectedOutcome(ErrAddArgs)
                \/ ~(/\ NoValue(args.scope) \/ NoValue(args.content)
                     /\ HandleAdd(args))
          /\ \A args \in SampleUpdateArgs :
                \/ C10_RejectedOutcome(ErrUpdateArgs)
                \/ ~(/\ NoValue(args.id) \/ NoValue(args.patch)
                     /\ HandleUpdate(args))
          /\ \A args \in SampleGetArgs :
                \/ C10_RejectedOutcome(ErrIdRequired)
                \/ ~(/\ NoValue(args.id)
                     /\ HandleGet(args) \/ HandleDelete(args))]_vars

\* An add with an empty content was refused while the log held a record.
C10_Witness ==
    /\ last.op = "memory.add"
    /\ last.result = Err(ErrAddArgs)
    /\ Len(FileContent(log)) >= 1

(***************************************************************************)
(* withFileLock (src/src/file-lock.ts), one file-system call per step.     *)
(* The marker records the process that created it and its modification     *)
(* time.  Positions of a process inside withFileLock:                      *)
(*   lock     the call is entered                                          *)
(*   open     about to fs.open(lockPath, "wx")                             *)
(*   meta     marker created, about to write the metadata                  *)
(*   crit     about to run the operation                                   *)
(*   exit     the operation has ended, about to unlink the marker          *)
(*   held     fs.open failed with EEXIST                                   *)
(*   stat     about to fs.stat the marker                                  *)
(*   break    the marker was found stale, about to unlink it               *)
(*   delay    sleeping for the retry delay                                 *)
(*   released the marker is unlinked, the call is about to return          *)
(*   timeout  the call has thrown the timeout error                        *)
(***************************************************************************)
DEFAULT_TIMEOUT_MS == 5000
DEFAULT_RETRY_DELAY_MS == 50
DEFAULT_STALE_MS == 30000

Marker(owner, mtime) == [kind |-> "marker", owner |-> owner, mtime |-> mtime]

\* Mutant of isLockStale: no marker is ever found stale.
isLockStaleNever(marker, nowMs) == FALSE

\* isLockStale: a missing marker is not stale.
isLockStale(marker, nowMs) ==
    IF marker = NoMarker THEN FALSE
    ELSE nowMs - marker.mtime > DEFAULT_STALE_MS

\* What a lock step leaves alone.
notLock == <<now, nextUuid, log, tmpFile, bakFile, corruptFile, index, last, resolved>>

SetPc(p, to) == pc' = [pc EXCEPT ![p] = to]

\* const start = Date.now(); fs.mkdir
LockBegin(p) ==
    /\ pc[p] = "lock"
    /\ SetPc(p, "open")
    /\ loc' = [loc EXCEPT ![p].start = now]
    /\ UNCHANGED <<lock, notLock>>

\* fs.open(lockPath, "wx"): creates the marker, or fails with EEXIST.
LockOpen(p) ==
    /\ pc[p] = "open"
    /\ IF lock = NoMarker
       THEN lock' = Marker(p, now) /\ SetPc(p, "meta")
       ELSE lock' = lock /\ SetPc(p, "held")
    /\ UNCHANGED <<loc, notLock>>

\* handle.writeFile(metadata): written through the handle, so to the file
\* this process created even when the path no longer names it.
LockMeta(p) ==
    /\ pc[p] = "meta"
    /\ lock' = IF lock # NoMarker /\ lock.owner = p THEN Marker(p, now) ELSE lock
    /\ SetPc(p, "crit")
    /\ UNCHANGED <<loc, notLock>>

\* Mutant of LockRelease: the unlink follows the operation without a finally,
\* so it is skipped when the operation throws.
LockReleaseOnReturn(p) ==
    /\ pc[p] = "exit"
    /\ lock' = IF loc[p].outcome = "threw" THEN lock ELSE NoMarker
    /\ SetPc(p, "released")
    /\ UNCHANGED <<loc, notLock>>

\* finally: handle.close; fs.unlink(lockPath), ENOENT tolerated.  The unlink
\* removes whatever marker the path names.
LockRelease(p) ==
    /\ pc[p] = "exit"
    /\ lock' = NoMarker
    /\ SetPc(p, "released")
    /\ UNCHANGED <<loc, notLock>>

\* Mutant of LockTimeout: the elapsed wait is not checked.
LockTimeoutNever(p) ==
    /\ pc[p] = "held"
    /\ SetPc(p, "stat")
    /\ UNCHANGED <<lock, loc, notLock>>

\* catch EEXIST: if (Date.now() - start > timeoutMs) throw
LockTimeout(p) ==
    /\ pc[p] = "held"
    /\ SetPc(p, IF now - loc[p].start > DEFAULT_TIMEOUT_MS THEN "timeout" ELSE "stat")
    /\ UNCHANGED <<lock, loc, notLock>>

\* await isLockStale(lockPath, staleMs)
LockStat(p) ==
    /\ pc[p] = "stat"
    /\ IF isLockStale(lock, now)
       THEN SetPc(p, "break") /\ loc' = loc
       ELSE SetPc(p, "delay") /\ loc' = [loc EXCEPT ![p].wake = now + DEFAULT_RETRY_DELAY_MS]
    /\ UNCHANGED <<lock, notLock>>

\* fs.unlink(lockPath) of the stale branch, ENOENT tolerated; continue
LockBreak(p) ==
    /\ pc[p] = "break"
    /\ lock' = NoMarker
    /\ SetPc(p, "open")
    /\ UNCHANGED <<loc, notLock>>

\* await delay(retryDelayMs): the timer fires once the delay has elapsed.
LockDelay(p) ==
    /\ pc[p] = "delay"
    /\ now >= loc[p].wake
    /\ SetPc(p, "open")
    /\ UNCHANGED <<lock, loc, notLock>>

\* The steps of withFileLock outside the operation.
LockStep(p) ==
    \/ LockBegin(p)
    \/ LockOpen(p)
    \/ LockMeta(p)
    \/ LockRelease(p)
    \/ LockTimeout(p)
    \/ LockStat(p)
    \/ LockBreak(p)
    \/ LockDelay(p)


(***************************************************************************)
(* Processes that call withFileLock on one path again and again, with an   *)
(* operation that touches no file.  The path may hold a marker left by a   *)
(* process that died inside its operation earlier (owner 0).               *)
(***************************************************************************)
MaxTicks == 4

\* The clock is observed at multiples of this step.
TickMs == 2 * DEFAULT_TIMEOUT_MS

LockLocals == [op |-> "withFileLock", start |-> 0, wake |-> 0, outcome |-> "none"]

InitLock ==
    /\ now = 0
    /\ nextUuid = 0
    /\ log = Missing
    /\ tmpFile = Missing
    /\ bakFile = Missing
    /\ corruptFile = Missing
    /\ index = Missing
    /\ lock \in {NoMarker, Marker(0, 0)}
    /\ last = NoCall
    /\ resolved = NotResolved
    /\ pc = [p \in Procs |-> "lock"]
    /\ loc = [p \in Procs |-> LockLocals]

\* return await operation(): the operation starts.
OperationStart(p) ==
    /\ pc[p] = "crit"
    /\ SetPc(p, "running")
    /\ UNCHANGED <<lock, loc, notLock>>

\* The operation returns or throws.
OperationEnd(p) ==
    /\ pc[p] = "running"
    /\ \E outcome \in {"returned", "threw"} : loc' = [loc EXCEPT ![p].outcome = outcome]
    /\ SetPc(p, "exit")
    /\ UNCHANGED <<lock, notLock>>

\* The call has returned or thrown; the process calls withFileLock again.
CallAgain(p) ==
    /\ pc[p] \in {"released", "timeout"}
    /\ SetPc(p, "lock")
    /\ loc' = [loc EXCEPT ![p] = LockLocals]
    /\ UNCHANGED <<lock, notLock>>

\* The process dies while it holds the marker.
CrashLock(p) ==
    /\ pc[p] \in {"meta", "crit", "running", "exit"}
    /\ SetPc(p, "crashed")
    /\ UNCHANGED <<lock, loc, notLock>>

\* The last value of the clock the model observes.
ClockEnd == MaxTicks * TickMs

\* await delay(retryDelayMs) at the last observed value of the clock: the
\* timer fires although the model's clock no longer moves.
LockDelayEnd(p) ==
    /\ pc[p] = "delay"
    /\ now = ClockEnd /\ now < loc[p].wake
    /\ SetPc(p, "open")
    /\ UNCHANGED <<lock, loc, notLock>>

TickLock ==
    /\ now < ClockEnd
    /\ now' = now + TickMs
    /\ UNCHANGED <<nextUuid, log, tmpFile, bakFile, corruptFile, index, lock, last, resolved, pc, loc>>

NextLock ==
    \/ \E p \in Procs : LockBegin(p)
    \/ \E p \in Procs : LockOpen(p)
    \/ \E p \in Procs : LockMeta(p)
    \/ \E p \in Procs : OperationStart(p)
    \/ \E p \in Procs : OperationEnd(p)
    \/ \E p \in Procs : LockRelease(p)
    \/ \E p \in Procs : LockTimeout(p)
    \/ \E p \in Procs : LockStat(p)
    \/ \E p \in Procs : LockBreak(p)
    \/ \E p \in Procs : LockDelay(p)
    \/ \E p \in Procs : LockDelayEnd(p)
    \/ \E p \in Procs : CallAgain(p)
    \/ \E p \in Procs : CrashLock(p)
    \/ TickLock

SpecLock == InitLock /\ [][NextLock]_vars

\* The same processes under the scheduling of the event loop: the clock
\* moves on, and a process that has not died takes its next step.  Nothing
\* obliges a process to die.
LiveStep(p) ==
    \/ LockStep(p)
    \/ LockDelayEnd(p)
    \/ OperationStart(p)
    \/ OperationEnd(p)
    \/ CallAgain(p)

SpecLockFair ==
    /\ InitLock
    /\ [][NextLock]_vars
    /\ WF_vars(TickLock)
    /\ \A p \in Procs : WF_vars(LiveStep(p))

\* C1: among processes that use withFileLock on one path, at most one runs
\* its operation at any time.
C1_MutualExclusion ==
    \A p, q \in Procs : pc[p] = "running" /\ pc[q] = "running" => p = q


(***************************************************************************)
(* compactMemoryFile and repairMemoryFile (src/src/memory-store.ts         *)
(* 215-292) run by one process, one file-system call per step, with the    *)
(* process free to die between any two steps.  Positions inside the        *)
(* operation: crit (about to read), quarantine, write (about to write the  *)
(* temporary file), rename1, rename2, then exit.                           *)
(***************************************************************************)
MaxRewriteLines == 2

RewriteItem(id, updatedAt) ==
    SampleItem(Uuid(id), ToISOString(0), ToISOString(updatedAt), Str(<<"c">>))

RewriteLines ==
    {BlankLine, BadLine,
     JSONStringify(RewriteItem(1, 0)),
     JSONStringify(RewriteItem(1, 1)),
     JSONStringify(RewriteItem(2, 0))}

RewriteLogs ==
    {File(lines) : lines \in UNION {[1..n -> RewriteLines] : n \in 0..MaxRewriteLines}}

\* The calls: compactMemoryFile, and repairMemoryFile with its two options.
RewriteCalls ==
    {[op |-> "compact", compact |-> TRUE, quarantine |-> FALSE]}
    \cup {[op |-> "repair", compact |-> c, quarantine |-> q] : c, q \in BOOLEAN}

\* items.map((item) => JSON.stringify(item)).join("\n") + "\n"
\* as lines: no item gives the single blank line "\n".
RewriteContent(items) ==
    IF items = <<>> THEN <<BlankLine>>
    ELSE [i \in 1..Len(items) |-> JSONStringify(items[i])]

\* The corruptEntries of repairMemoryFile: line number and raw text of every
\* non-blank line parseLine rejects.
corruptEntries(content) ==
    LET numbered == [i \in 1..Len(content) |-> [lineNumber |-> i, raw |-> content[i]]]
    IN  SelectSeq(numbered, LAMBDA entry : parseLineError(entry.raw))

RewriteLocals(call, orig) ==
    [op |-> call.op, compact |-> call.compact, quarantine |-> call.quarantine,
     start |-> 0, wake |-> 0,
     orig |-> orig, planned |-> FALSE, out |-> <<>>, corrupt |-> <<>>,
     repaired |-> FALSE, compacted |-> FALSE]

InitRewrite ==
    /\ now = 0
    /\ nextUuid = 0
    /\ log \in RewriteLogs
    /\ tmpFile = Missing
    /\ bakFile = Missing
    /\ corruptFile = Missing
    /\ index = Missing
    /\ lock = NoMarker
    /\ last = NoCall
    /\ resolved = NotResolved
    /\ pc = [p \in Procs |-> "idle"]
    /\ loc = [p \in Procs |-> NoLocals]

notFiles == <<now, nextUuid, index, lock, last, resolved>>

\* The process calls compactMemoryFile or repairMemoryFile.
RewriteCall(p) ==
    /\ pc[p] = "idle"
    /\ \E call \in RewriteCalls :
          loc' = [loc EXCEPT ![p] = RewriteLocals(call, FileContent(log))]
    /\ SetPc(p, "lock")
    /\ UNCHANGED <<log, tmpFile, bakFile, corruptFile, notFiles>>

\* Mutant of CompactRead: the rewrite keeps every valid line.
CompactReadKeepAll(p) ==
    /\ pc[p] = "crit"
    /\ loc[p].op = "compact"
    /\ log' = ensureFile(log)
    /\ loc' = [loc EXCEPT ![p].planned = TRUE,
                          ![p].compacted = TRUE,
                          ![p].out = RewriteContent(readAllItems(FileContent(log)))]
    /\ SetPc(p, "write")
    /\ UNCHANGED <<tmpFile, bakFile, corruptFile, notFiles>>

\* compactMemoryFile: readLatestItems(memoryFile), ensureFile included.
CompactRead(p) ==
    /\ pc[p] = "crit"
    /\ loc[p].op = "compact"
    /\ log' = ensureFile(log)
    /\ loc' = [loc EXCEPT ![p].planned = TRUE,
                          ![p].compacted = TRUE,
                          ![p].out = RewriteContent(readLatestItems(FileContent(log)))]
    /\ SetPc(p, "write")
    /\ UNCHANGED <<tmpFile, bakFile, corruptFile, notFiles>>

\* Mutant of RepairRead: a compacting repair writes every valid line.
RepairReadKeepAll(p) ==
    /\ pc[p] = "crit"
    /\ loc[p].op = "repair"
    /\ log' = ensureFile(log)
    /\ LET items == readAllItems(FileContent(log))
           corrupt == corruptEntries(FileContent(log))
           shouldWrite == Len(corrupt) > 0 \/ (loc[p].compact /\ Len(items) > 0)
       IN  /\ loc' = [loc EXCEPT ![p].planned = shouldWrite,
                                 ![p].repaired = Len(corrupt) > 0,
                                 ![p].compacted = loc[p].compact /\ Len(items) > 0,
                                 ![p].corrupt = corrupt,
                                 ![p].out = IF ~shouldWrite THEN <<>> ELSE RewriteContent(items)]
           /\ SetPc(p, IF loc[p].quarantine /\ Len(corrupt) > 0 THEN "quarantine"
                       ELSE IF shouldWrite THEN "write"
                       ELSE "exit")
    /\ UNCHANGED <<tmpFile, bakFile, corruptFile, notFiles>>

\* repairMemoryFile: ensureFile, fs.readFile and the scan of the lines.
RepairRead(p) ==
    /\ pc[p] = "crit"
    /\ loc[p].op = "repair"
    /\ log' = ensureFile(log)
    /\ LET content == FileContent(log)
           items == readAllItems(content)
           corrupt == corruptEntries(content)
           repaired == Len(corrupt) > 0
           compacted == loc[p].compact /\ Len(items) > 0
           shouldWrite == repaired \/ compacted
       IN  /\ loc' = [loc EXCEPT ![p].planned = shouldWrite,
                                 ![p].repaired = repaired,
                                 ![p].compacted = compacted,
                                 ![p].corrupt = corrupt,
                                 ![p].out = IF ~shouldWrite THEN <<>>
                                            ELSE RewriteContent(IF compacted
                                                                THEN selectLatestItems(items)
                                                                ELSE items)]
           /\ SetPc(p, IF loc[p].quarantine /\ Len(corrupt) > 0 THEN "quarantine"
                       ELSE IF shouldWrite THEN "write"
                       ELSE "exit")
    /\ UNCHANGED <<tmpFile, bakFile, corruptFile, notFiles>>

\* fs.writeFile(quarantinedFile, payload)
QuarantineWrite(p) ==
    /\ pc[p] = "quarantine"
    /\ corruptFile' = File(loc[p].corrupt)
    /\ SetPc(p, IF loc[p].planned THEN "write" ELSE "exit")
    /\ UNCHANGED <<log, tmpFile, bakFile, loc, notFiles>>

\* Mutant of WriteTemp: the temporary file takes the lines as they were read.
WriteTempAsRead(p) ==
    /\ pc[p] = "write"
    /\ tmpFile' = File(loc[p].orig)
    /\ SetPc(p, "rename1")
    /\ UNCHANGED <<log, bakFile, corruptFile, loc, notFiles>>

\* fs.writeFile(tempFile, ...)
WriteTemp(p) ==
    /\ pc[p] = "write"
    /\ tmpFile' = File(loc[p].out)
    /\ SetPc(p, "rename1")
    /\ UNCHANGED <<log, bakFile, corruptFile, loc, notFiles>>

\* fs.rename(memoryFile, backupFile): the primary path names no file.
RenameToBackup(p) ==
    /\ pc[p] = "rename1"
    /\ log.exists
    /\ bakFile' = log
    /\ log' = Missing
    /\ SetPc(p, "rename2")
    /\ UNCHANGED <<tmpFile, corruptFile, loc, notFiles>>

\* fs.rename(tempFile, memoryFile)
RenameToPrimary(p) ==
    /\ pc[p] = "rename2"
    /\ tmpFile.exists
    /\ log' = tmpFile
    /\ tmpFile' = Missing
    /\ SetPc(p, "exit")
    /\ UNCHANGED <<bakFile, corruptFile, loc, notFiles>>

\* withFileLock returns; repairMemoryFile returns its result.
RewriteReturn(p) ==
    /\ pc[p] = "released"
    /\ SetPc(p, "done")
    /\ last' = [op |-> loc[p].op,
                result |-> [ok |-> TRUE, repaired |-> loc[p].repaired,
                            compacted |-> loc[p].compacted,
                            quarantinedLines |-> Len(loc[p].corrupt)]]
    /\ UNCHANGED <<now, nextUuid, log, tmpFile, bakFile, corruptFile, index, lock, resolved, loc>>

\* The process dies inside the call.
CrashRewrite(p) ==
    /\ pc[p] \notin {"idle", "done", "crashed"}
    /\ SetPc(p, "crashed")
    /\ UNCHANGED <<log, tmpFile, bakFile, corruptFile, loc, notFiles>>

NextRewrite ==
    \/ RewriteCall(1)
    \/ LockBegin(1)
    \/ LockOpen(1)
    \/ LockMeta(1)
    \/ CompactRead(1)
    \/ RepairRead(1)
    \/ QuarantineWrite(1)
    \/ WriteTemp(1)
    \/ RenameToBackup(1)
    \/ RenameToPrimary(1)
    \/ LockRelease(1)
    \/ RewriteReturn(1)
    \/ CrashRewrite(1)

SpecRewrite == InitRewrite /\ [][NextRewrite]_vars

\* C2: from the call of a compaction or a rewriting repair on, crash
\* included, the primary path holds a file whose content is the complete
\* original content or the complete new content.
C2_PrimaryWhole ==
    pc[1] # "idle" =>
        /\ log.exists
        /\ \/ log.lines = loc[1].orig
           \/ loc[1].planned /\ log.lines = loc[1].out


(***************************************************************************)
(* Two processes that each run one memory.update call on the same item     *)
(* (src/specifications.md 650-658), one file-system call or clock read per *)
(* step.  updateMemoryItem reads the latest view and builds the merged     *)
(* record before appendItem requests the lock.  Positions: idle, merge     *)
(* (the view is read), the positions of withFileLock with the append at    *)
(* crit, released, index (the index is loaded), done, failed.  The clock    *)
(* stays below the staleness threshold, so no marker is found stale.       *)
(***************************************************************************)
MaxConcTicks == 1

ConcItem == addMemoryItem(AddInput(BaseAddArgs), Uuid(1), 0)

ConcPatches ==
    [p \in Procs |->
        IF p = 1 THEN [content |-> Str(<<"x">>)] ELSE [importance |-> Num(150)]]

ConcLocals ==
    [op |-> "memory.update", start |-> 0, wake |-> 0,
     existing |-> Null, updated |-> Null, idx |-> Null]

\* The state an add of one item at time 0 leaves.
InitConc ==
    /\ now = 0
    /\ nextUuid = 1
    /\ log = appendItem(Missing, ConcItem)
    /\ tmpFile = Missing
    /\ bakFile = Missing
    /\ corruptFile = Missing
    /\ index = updateIndexFromItems(Missing, <<ConcItem>>, 0)
    /\ lock = NoMarker
    /\ last = NoCall
    /\ resolved = NotResolved
    /\ pc = [p \in Procs |-> "idle"]
    /\ loc = [p \in Procs |-> ConcLocals]

notLog == <<now, nextUuid, tmpFile, bakFile, corruptFile, index, lock, last, resolved>>

\* updateMemoryItem: readLatestItems and the lookup of the id; the item is
\* in the log, so the call goes on.
UpdateRead(p) ==
    /\ pc[p] = "idle"
    /\ log' = ensureFile(log)
    /\ LET existing == getMemoryItem(FileContent(log), ConcItem.id)
       IN  /\ existing # Null
           /\ loc' = [loc EXCEPT ![p].existing = existing]
    /\ SetPc(p, "merge")
    /\ UNCHANGED notLog

\* updateMemoryItem: the merged record, stamped with new Date(); appendItem
\* then calls withFileLock.
UpdateMerge(p) ==
    /\ pc[p] = "merge"
    /\ loc' = [loc EXCEPT ![p].updated = MergePatch(loc[p].existing, ConcPatches[p], now)]
    /\ SetPc(p, "lock")
    /\ UNCHANGED <<log, notLog>>

\* The operation of appendItem: ensureFile and fs.appendFile.
UpdateAppend(p) ==
    /\ pc[p] = "crit"
    /\ log' = appendItem(log, loc[p].updated)
    /\ SetPc(p, "exit")
    /\ UNCHANGED <<loc, notLog>>

\* updateIndexFromItems: loadIndex.
IndexLoad(p) ==
    /\ pc[p] = "released"
    /\ index' = IF index.exists THEN index ELSE saveIndex(createEmptyIndex(now), now)
    /\ loc' = [loc EXCEPT ![p].idx = loadIndex(index, now)]
    /\ SetPc(p, "index")
    /\ UNCHANGED <<now, nextUuid, log, tmpFile, bakFile, corruptFile, lock, last, resolved>>

\* updateIndexFromItems: the loop, sortIndex and saveIndex; the handler
\* returns the item.
IndexSave(p) ==
    /\ pc[p] = "index"
    /\ LET items == <<loc[p].updated>>
       IN  index' = saveIndex(sortIndex(PatchIndex(loc[p].idx, items), items), now)
    /\ last' = Call(loc[p].op, <<>>, Ok(loc[p].updated))
    /\ SetPc(p, "done")
    /\ UNCHANGED <<now, nextUuid, log, tmpFile, bakFile, corruptFile, lock, resolved, loc>>

\* withFileLock has thrown the timeout error; the handler rethrows it.
UpdateFails(p) ==
    /\ pc[p] = "timeout"
    /\ last' = Call(loc[p].op, <<>>, Err("Timed out waiting for lock"))
    /\ SetPc(p, "failed")
    /\ UNCHANGED <<now, nextUuid, log, tmpFile, bakFile, corruptFile, index, lock, resolved, loc>>

TickConc ==
    /\ now < MaxConcTicks * TickMs
    /\ now' = now + TickMs
    /\ UNCHANGED <<nextUuid, log, tmpFile, bakFile, corruptFile, index, lock, last, resolved, pc, loc>>

NextConc ==
    \/ \E p \in Procs : UpdateRead(p)
    \/ \E p \in Procs : UpdateMerge(p)
    \/ \E p \in Procs : LockBegin(p)
    \/ \E p \in Procs : LockOpen(p)
    \/ \E p \in Procs : LockMeta(p)
    \/ \E p \in Procs : UpdateAppend(p)
    \/ \E p \in Procs : LockRelease(p)
    \/ \E p \in Procs : LockTimeout(p)
    \/ \E p \in Procs : LockStat(p)
    \/ \E p \in Procs : LockDelay(p)
    \/ \E p \in Procs : UpdateFails(p)
    \/ \E p \in Procs : IndexLoad(p)
    \/ \E p \in Procs : IndexSave(p)
    \/ TickConc

SpecConc == InitConc /\ [][NextConc]_vars

\* The record of `id` that stands last in the log.
LastAppended(content, id) ==
    LET items == readAllItems(content)
        at == {i \in 1..Len(items) : items[i].id = id}
    IN  items[CHOOSE i \in at : \A j \in at : j <= i]

\* C4: once the update calls of all processes have ended, resolve-latest
\* returns for the item the record appended last to the log for its id.
C4_LastAppendWins ==
    (\A p \in Procs : pc[p] \in {"done", "failed"}) =>
        getMemoryItem(FileContent(log), ConcItem.id) = LastAppended(FileContent(log), ConcItem.id)


(***************************************************************************)
(* readAllItems (src/src/memory-store.ts 105-134) on arbitrary log         *)
(* contents: blank lines, undecodable lines, decodable values the schema   *)
(* rejects, and records.                                                   *)
(***************************************************************************)
MaxReadLines == 3

ReadLines ==
    {BlankLine, BadLine,
     JsonLine(Null),
     JsonLine(Arr(<<>>)),
     JsonLine(Obj([RewriteItem(1, 0) EXCEPT !.scope = Str(<<" ">>)])),
     JsonLine(Obj([RewriteItem(1, 0) EXCEPT !.importance = Null])),
     JSONStringify(RewriteItem(1, 0)),
     JSONStringify(RewriteItem(2, 1))}

ReadLogs ==
    {Missing} \cup
    {File(lines) : lines \in UNION {[1..n -> ReadLines] : n \in 0..MaxReadLines}}

\* Mutant of readAllErrors: only a line JSON.parse rejects is recorded.
readAllErrorsDecodeOnly(content) ==
    LET numbered == [i \in 1..Len(content) |-> [lineNumber |-> i, raw |-> content[i]]]
        bad == SelectSeq(numbered, LAMBDA entry : entry.raw.kind = "bad")
    IN  [k \in 1..Len(bad) |-> [lineNumber |-> bad[k].lineNumber]]

\* readAllItems(memoryFile).errors: one `Line ${lineNumber}: ...` message
\* for every line parseLine reports an error for.
readAllErrors(content) ==
    LET bad == corruptEntries(content)
    IN  [k \in 1..Len(bad) |-> [lineNumber |-> bad[k].lineNumber]]

\* The size of a line's text.  Lines are held by kind, not as text: a blank
\* line is the empty text, an undecodable line one character, a decodable
\* line two.
LineBytes(line) ==
    CASE line.kind = "blank" -> 0
      [] line.kind = "bad" -> 1
      [] OTHER -> 2

\* Buffer.byteLength(content, "utf8"): every line and its line break.
RECURSIVE byteLength(_)
byteLength(content) ==
    IF content = <<>> THEN 0
    ELSE byteLength(SubSeq(content, 1, Len(content) - 1)) + LineBytes(content[Len(content)]) + 1

\* readAllItems(memoryFile).stats; content.split(/\r?\n/) yields one piece
\* per line and an empty last piece after the final newline.
readAllStats(content) ==
    LET blank == {i \in 1..Len(content) : content[i].kind = "blank"}
    IN  [totalLines |-> Len(content) + 1,
         emptyLines |-> Cardinality(blank) + 1,
         validLines |-> Len(readAllItems(content)),
         invalidLines |-> Len(corruptEntries(content)),
         bytes |-> byteLength(content)]

InitRead ==
    /\ now = 0
    /\ nextUuid = 0
    /\ log \in ReadLogs
    /\ tmpFile = Missing
    /\ bakFile = Missing
    /\ corruptFile = Missing
    /\ index = Missing
    /\ lock = NoMarker
    /\ last = NoCall
    /\ resolved = NotResolved
    /\ pc = [p \in Procs |-> "idle"]
    /\ loc = [p \in Procs |-> NoLocals]

\* readAllItems(memoryFile)
ReadAll ==
    /\ last = NoCall
    /\ log' = ensureFile(log)
    /\ LET content == FileContent(log)
       IN  last' = [op |-> "readAllItems",
                    result |-> [items |-> readAllItems(content),
                                errors |-> readAllErrors(content),
                                stats |-> readAllStats(content)]]
    /\ UNCHANGED <<now, nextUuid, tmpFile, bakFile, corruptFile, index, lock, resolved, pc, loc>>

NextRead == ReadAll

SpecRead == InitRead /\ [][NextRead]_vars

\* A line that decodes to a value the schema accepts.
WellFormed(line) == line.kind = "json" /\ validateMemoryItem(line.value)

\* The k-th smallest element of a set of line numbers.
Kth(S, k) == CHOOSE i \in S : Cardinality({j \in S : j <= i}) = k

\* C11: a read returns the records of the well-formed lines, in order, and
\* one diagnostic carrying the line number for every non-blank line that is
\* not well-formed, in order; blank lines give neither.
C11_ReadTolerant ==
    last.op = "readAllItems" =>
        LET content == FileContent(log)
            good == {i \in 1..Len(content) : WellFormed(content[i])}
            bad == {i \in 1..Len(content) :
                       content[i].kind # "blank" /\ ~WellFormed(content[i])}
            items == last.result.items
            errors == last.result.errors
        IN  /\ Len(items) = Cardinality(good)
            /\ \A k \in 1..Len(items) : items[k] = content[Kth(good, k)].value.o
            /\ Len(errors) = Cardinality(bad)
            /\ \A k \in 1..Len(errors) : errors[k].lineNumber = Kth(bad, k)

\* A blank line, a line the schema rejects and a record were read: one item
\* and one diagnostic, for line 2.
C11_Witness ==
    /\ last.op = "readAllItems"
    /\ Len(FileContent(log)) = 3
    /\ FileContent(log)[1] = BlankLine
    /\ FileContent(log)[2] = JsonLine(Obj([RewriteItem(1, 0) EXCEPT !.scope = Str(<<" ">>)]))
    /\ Len(last.result.items) = 1
    /\ last.result.errors = <<[lineNumber |-> 2]>>

(***************************************************************************)
(* Index maintenance and filtered search.                                  *)
(*   src/unnamed/part_001 buildIndex, rebuildIndex, updateIndexFromItems   *)
(*   src/specifications.md collectCandidateIds, case "memory.search"       *)
(* The index objects are plain JavaScript objects, so a key that names a   *)
(* member of Object.prototype reads as that member while the object has no *)
(* own property of the name.                                               *)
(***************************************************************************)
MaxIndexLines == 2

\* items.filter((item) => !item.deleted), as buildIndex skips deleted items.
NotDeleted(items) == SelectSeq(items, LAMBDA item : ~Truthy(item.deleted))

\* buildIndex throws: the index starts empty, so an inherited key is never
\* an own property.
buildIndexThrows(items) ==
    PatchIndexThrows(createEmptyIndex(0), NotDeleted(items))

RECURSIVE AddAll(_, _)
AddAll(idx, items) ==
    IF items = <<>> THEN idx ELSE AddAll(addIdToIndex(idx, Head(items)), Tail(items))

buildIndex(items, nowMs) ==
    sortIndex(AddAll(createEmptyIndex(nowMs), NotDeleted(items)), NotDeleted(items))

\* new Set(ids), and function intersectIds.
IdSet(ids) == [t |-> "set", ids |-> {ids[i] : i \in 1..Len(ids)}]

intersectIds(base, ids) == [t |-> "set", ids |-> base.ids \cap IdSet(ids).ids]

\* The bucket map collectCandidateIds reads for the query: byScopeTag[scope]
\* with a scope and tags (a property of an inherited function is undefined),
\* byTag with tags alone.
QueryBuckets(idx, scope) ==
    IF ~Truthy(scope) THEN idx.byTag
    ELSE IF NotAnArray(idx.byScopeTag, scope) THEN EmptyMap
    ELSE SubMap(idx.byScopeTag, scope)

\* The intersection loop over the tags from the i-th on, leaving at the
\* first empty set.  new Set and for..of throw on an inherited member.
RECURSIVE IntersectThrows(_, _, _)
IntersectThrows(m, tags, candidate) ==
    /\ tags # <<>>
    /\ \/ NotAnArray(m, Head(tags))
       \/ LET next == IF candidate = Null THEN IdSet(Bucket(m, Head(tags)))
                       ELSE intersectIds(candidate, Bucket(m, Head(tags)))
          IN  next.ids # {} /\ IntersectThrows(m, Tail(tags), next)

RECURSIVE Intersect(_, _, _)
Intersect(m, tags, candidate) ==
    IF tags = <<>> THEN (IF candidate = Null THEN IdSet(<<>>) ELSE candidate)
    ELSE LET next == IF candidate = Null THEN IdSet(Bucket(m, Head(tags)))
                     ELSE intersectIds(candidate, Bucket(m, Head(tags)))
         IN  IF next.ids = {} THEN next ELSE Intersect(m, Tail(tags), next)

\* collectCandidateIds throws a TypeError: a mapping is missing, or an
\* inherited member stands where a bucket is expected.
collectThrows(idx, scope, tags) ==
    /\ Truthy(scope) \/ tags # <<>>
    /\ \/ MappingsMissing(idx)
       \/ IF tags = <<>> THEN NotAnArray(idx.byScope, scope)
          ELSE IntersectThrows(QueryBuckets(idx, scope), tags, Null)

\* collectCandidateIds: Null for no filter, else the set of candidate ids.
collectCandidateIds(idx, scope, tags) ==
    IF ~Truthy(scope) /\ tags = <<>> THEN Null
    ELSE IF tags = <<>>
    THEN IdSet(Bucket(idx.byScope, scope))
    ELSE Intersect(QueryBuckets(idx, scope), tags, Null)

(***************************************************************************)
(* Scoring and ranking (src/src/retriever.ts).  Weights are held in        *)
(* tenths, importance in hundredths, Math.exp in thousandths; tagScore and *)
(* textScore are fractions over the number of query tags and tokens.  A    *)
(* score is held as its numerator over the denominator ScoreDen(query),    *)
(* which is the same for every item of one search.  Ages are whole days.   *)
(***************************************************************************)
DayMs == 86400000

\* The characters of a string value; a timestamp or identifier reads as one
\* opaque character.
StrChars(v) == IF "s" \in DOMAIN v THEN v.s ELSE <<"#">>

\* text.toLowerCase().split(/\s+/).map(trim).filter(nonempty)
RECURSIVE SplitWords(_, _)
SplitWords(chars, word) ==
    IF chars = <<>> THEN (IF word = <<>> THEN <<>> ELSE <<word>>)
    ELSE IF Head(chars) = " "
    THEN (IF word = <<>> THEN <<>> ELSE <<word>>) \o SplitWords(Tail(chars), <<>>)
    ELSE SplitWords(Tail(chars), Append(word, Head(chars)))

tokenize(text) == SplitWords(ToLowerChars(StrChars(text)), <<>>)

\* haystack.includes(token)
Includes(hay, token) ==
    \E i \in 1..(Len(hay) + 1) :
       /\ i + Len(token) - 1 <= Len(hay)
       /\ SubSeq(hay, i, i + Len(token) - 1) = token

\* Math.exp(-x) in thousandths, for whole x.
ExpMilli(x) ==
    CASE x <= -2 -> 7389
      [] x = -1 -> 2718
      [] x = 0 -> 1000
      [] x = 1 -> 368
      [] x = 2 -> 135
      [] x = 3 -> 50
      [] x = 4 -> 18
      [] OTHER -> 0

\* recencyScore, in thousandths.
recencyScore(item, halfLifeDays, nowMs) ==
    IF halfLifeDays <= 0 THEN 1000
    ELSE IF IsNaN(DateParse(item.updatedAt)) THEN 0
    ELSE ExpMilli(((nowMs - DateParse(item.updatedAt).n) \div DayMs) \div halfLifeDays)

\* The number of query tokens the haystack includes; textScore is this over
\* the number of tokens.
textMatches(item, tokens) ==
    LET summary == IF item.summary.t = "string" THEN StrChars(item.summary) ELSE <<>>
        haystack == ToLowerChars(StrChars(item.content) \o <<" ">> \o summary)
    IN  Cardinality({i \in 1..Len(tokens) : Includes(haystack, tokens[i])})

\* The number of query tags the item carries; tagScore is this over the
\* number of query tags.
tagMatches(item, tags) ==
    LET tagSet == {ToLowerCase(item.tags.a[i]) : i \in 1..Len(item.tags.a)}
    IN  Cardinality({i \in 1..Len(tags) : ToLowerCase(tags[i]) \in tagSet})

queryTokens(query) == IF Truthy(query.text) THEN tokenize(query.text) ELSE <<>>

AtLeastOne(n) == IF n = 0 THEN 1 ELSE n

\* The denominator of the scores of one search.
ScoreDen(query) == 10000 * AtLeastOne(Len(query.tags)) * AtLeastOne(Len(queryTokens(query)))

\* scoreItem, as the numerator over ScoreDen(query).
scoreItem(item, query, config, nowMs) ==
    LET nTags == AtLeastOne(Len(query.tags))
        nTokens == AtLeastOne(Len(queryTokens(query)))
        scopeScore == IF Truthy(query.scope) /\ item.scope = query.scope THEN 1 ELSE 0
    IN  config.scope * scopeScore * 1000 * nTags * nTokens
        + config.tag * tagMatches(item, query.tags) * 1000 * nTokens
        + config.recency * recencyScore(item, config.halfLifeDays, nowMs) * nTags * nTokens
        + config.importance * item.importance.n * 10 * nTags * nTokens
        + config.text * textMatches(item, queryTokens(query)) * 1000 * nTags

\* The comparator of results.sort is positive: a sorts after b.  A NaN
\* difference of the times counts as 0.
RankedAfter(a, b) ==
    IF b.score # a.score THEN b.score - a.score > 0
    ELSE LET aTime == DateParse(a.item.updatedAt)
             bTime == DateParse(b.item.updatedAt)
         IN  ~IsNaN(aTime) /\ ~IsNaN(bTime) /\ bTime.n - aTime.n > 0

\* Array.prototype.sort is stable: insertion of each result after the last
\* one that does not sort after it.
RECURSIVE sortResults(_)
sortResults(results) ==
    IF results = <<>> THEN <<>>
    ELSE LET sorted == sortResults(SubSeq(results, 1, Len(results) - 1))
             x == results[Len(results)]
             stay == {j \in 1..Len(sorted) : ~RankedAfter(sorted[j], x)}
             at == IF stay = {} THEN 0 ELSE CHOOSE j \in stay : \A k \in stay : k <= j
         IN  SubSeq(sorted, 1, at) \o <<x>> \o SubSeq(sorted, at + 1, Len(sorted))

\* Mutant of searchMemory: soft-deleted items are kept.
searchMemoryKeepDeleted(items, query, config, nowMs) ==
    LET results == [i \in 1..Len(items) |->
                       [item |-> items[i], score |-> scoreItem(items[i], query, config, nowMs)]]
    IN  sortResults(results)

\* searchMemory: soft-deleted items are dropped unless includeDeleted, the
\* rest is scored, sorted and cut to the limit.
searchMemory(items, query, config, nowMs) ==
    LET filtered == SelectSeq(items, LAMBDA item : query.includeDeleted \/ ~Truthy(item.deleted))
        results == [i \in 1..Len(filtered) |->
                       [item |-> filtered[i],
                        score |-> scoreItem(filtered[i], query, config, nowMs)]]
        sorted == sortResults(results)
        limit == IF query.limit.t = "number" /\ ~IsNaN(query.limit) /\ query.limit.n > 0
                 THEN query.limit.n ELSE Len(sorted)
    IN  SubSeq(sorted, 1, IF limit < Len(sorted) THEN limit ELSE Len(sorted))

\* The configuration the handlers run with: the documented weights and
\* default limit, with a half life of one day.
Scoring == [scope |-> 20, tag |-> 15, recency |-> 10, importance |-> 12, text |-> 14,
            halfLifeDays |-> 1]

DefaultLimit == 20

\* The scope and tags memory.search filters by, and includeDeleted.
searchScope(args) ==
    LET scopeInput == GetField(args, "scope")
    IN  IF scopeInput.t = "string" /\ Truthy(scopeInput) THEN normalizeScope(scopeInput)
        ELSE Undefined

searchTags(args) ==
    LET tagsInput == GetField(args, "tags")
    IN  IF tagsInput.t = "array" THEN normalizeTags(tagsInput.a) ELSE <<>>

searchIncludeDeleted(args) ==
    LET flag == GetField(args, "includeDeleted")
    IN  flag.t = "boolean" /\ flag.b

\* The handler consults the index.
searchUsesIndex(args) ==
    /\ ~searchIncludeDeleted(args)
    /\ Truthy(searchScope(args)) \/ searchTags(args) # <<>>

\* The items memory.search hands to searchMemory: the latest items, narrowed
\* to the candidate ids when the index is consulted.
searchCandidates(content, indexFile, args, nowMs) ==
    LET items == readLatestItems(content)
        candidates == collectCandidateIds(loadIndex(indexFile, nowMs),
                                          searchScope(args), searchTags(args))
    IN  IF ~searchUsesIndex(args) \/ candidates = Null THEN items
        ELSE SelectSeq(items, LAMBDA item : item.id \in candidates.ids)

\* The query memory.search hands to searchMemory.
searchQuery(args) ==
    LET text == GetField(args, "query")
        limit == GetField(args, "limit")
    IN  [scope |-> searchScope(args), tags |-> searchTags(args),
         text |-> IF text.t = "string" THEN text ELSE Undefined,
         limit |-> IF limit.t = "number" THEN limit ELSE Num(DefaultLimit),
         includeDeleted |-> searchIncludeDeleted(args)]

Results(items) == [ok |-> TRUE, results |-> items]

\* ---- specification SpecIndex: a log, an index file in any condition, and
\* the calls that read or write the index ----
IndexItem(id, scope, tags, updatedAt, deleted) ==
    [SampleItem(Uuid(id), ToISOString(0), ToISOString(updatedAt), Str(<<"c">>))
        EXCEPT !.scope = Str(scope), !.tags = Arr(tags), !.deleted = Bool(deleted)]

TagX == Str(<<"x">>)

IndexLines ==
    {JSONStringify(IndexItem(1, <<"s">>, <<TagX>>, 0, FALSE)),
     JSONStringify(IndexItem(1, <<"s">>, <<TagX>>, 1, TRUE)),
     JSONStringify(IndexItem(1, <<"t">>, <<>>, 1, FALSE)),
     JSONStringify(IndexItem(2, <<"s">>, <<>>, 0, FALSE)),
     JSONStringify(IndexItem(2, <<"t">>, <<TagX>>, 1, FALSE)),
     JSONStringify(IndexItem(2, <<"constructor">>, <<>>, 0, FALSE))}

IndexLogs ==
    {File(lines) : lines \in UNION {[1..n -> IndexLines] : n \in 0..MaxIndexLines}}

\* What rebuildIndex leaves for the content, where it does not throw.
BuiltIndex(content) ==
    IF buildIndexThrows(readLatestItems(content)) THEN {}
    ELSE {saveIndex(buildIndex(readLatestItems(content), 0), 0)}

\* The conditions of the index file: absent, up to date, built before the
\* last line was appended, emptied, of another version, not JSON, and of the
\* right version without its mappings.
IndexFiles(content) ==
    {Missing, [exists |-> TRUE, doc |-> createEmptyIndex(0)],
     [exists |-> TRUE, doc |-> [text |-> "{"]],
     [exists |-> TRUE, doc |-> [version |-> MEMORY_INDEX_VERSION, updatedAt |-> ToISOString(0)]]}
    \cup BuiltIndex(content)
    \cup (IF content = <<>> THEN {} ELSE BuiltIndex(SubSeq(content, 1, Len(content) - 1)))
    \cup {[exists |-> TRUE, doc |-> [f.doc EXCEPT !.version = MEMORY_INDEX_VERSION + 1]] :
             f \in BuiltIndex(content)}

SearchArgs ==
    {[scope |-> scope, tags |-> tags] :
        scope \in {Undefined, Str(<<"s">>), Str(<<"t">>), Str(<<"constructor">>)},
        tags \in {Undefined, Arr(<<TagX>>)}}
    \cup {[scope |-> Str(<<"s">>), includeDeleted |-> Bool(TRUE)]}

\* The item lists a caller hands to updateIndexFromItems: current items of
\* the log, as the handlers pass the items they have just written.
IndexUpdates(content) ==
    LET items == readLatestItems(content)
    IN  {<<items[i]>> : i \in 1..Len(items)}
        \cup {<<items[i], items[j]>> : i, j \in 1..Len(items)}

InitIndex ==
    /\ now = 2
    /\ nextUuid = 2
    /\ log \in IndexLogs
    /\ index \in IndexFiles(FileContent(log))
    /\ tmpFile = Missing
    /\ bakFile = Missing
    /\ corruptFile = Missing
    /\ lock = NoMarker
    /\ last = NoCall
    /\ resolved = NotResolved
    /\ pc = [p \in Procs |-> "idle"]
    /\ loc = [p \in Procs |-> NoLocals]

\* What memory.search returns or throws, given the log and the index file.
searchOutcome(content, indexFile, args, nowMs) ==
    IF /\ searchUsesIndex(args)
       /\ collectThrows(loadIndex(indexFile, nowMs), searchScope(args), searchTags(args))
    THEN Err(ErrType)
    ELSE Results(searchMemory(searchCandidates(content, indexFile, args, nowMs),
                              searchQuery(args), Scoring, nowMs))

\* case "memory.search"
HandleSearch(args) ==
    /\ log' = ensureFile(log)
    /\ index' = IF searchUsesIndex(args) THEN ensureIndexFile(index, now) ELSE index
    /\ last' = Call("memory.search", args, searchOutcome(FileContent(log), index, args, now))
    /\ UNCHANGED <<now, nextUuid, tmpFile, bakFile, corruptFile, lock, resolved, pc, loc>>

\* rebuildIndex(memoryFile, indexFile)
RebuildIndex ==
    LET latest == readLatestItems(FileContent(log))
    IN  /\ log' = ensureFile(log)
        /\ IF buildIndexThrows(latest)
           THEN /\ index' = index
                /\ last' = Call("rebuildIndex", <<>>, Err(ErrType))
           ELSE /\ index' = saveIndex(buildIndex(latest, now), now)
                /\ last' = Call("rebuildIndex", <<>>, Ok(Null))
        /\ UNCHANGED <<now, nextUuid, tmpFile, bakFile, corruptFile, lock, resolved, pc, loc>>

\* updateIndexFromItems(indexFile, items), called on its own.  `again` notes
\* that the call before it was the same call.
UpdateIndex(items) ==
    LET again == last.op = "updateIndexFromItems" /\ last.items = items
    IN  /\ IF updateIndexThrows(index, items, now)
           THEN /\ index' = ensureIndexFile(index, now)
                /\ last' = [op |-> "updateIndexFromItems", items |-> items,
                            again |-> again, result |-> Err(ErrType)]
           ELSE /\ index' = updateIndexFromItems(index, items, now)
                /\ last' = [op |-> "updateIndexFromItems", items |-> items,
                            again |-> again, result |-> Ok(Null)]
        /\ UNCHANGED <<now, nextUuid, log, tmpFile, bakFile, corruptFile, lock, resolved, pc, loc>>

NextIndex ==
    \/ \E args \in SearchArgs : HandleSearch(args)
    \/ RebuildIndex
    \/ \E items \in IndexUpdates(FileContent(log)) : UpdateIndex(items)

SpecIndex == InitIndex /\ [][NextIndex]_vars

\* The items of a search result, as a set.
ResultItems(result) == {result.results[i].item : i \in 1..Len(result.results)}

\* The current items a filtered search is to return: not deleted, of the
\* scope asked for, holding every tag asked for.
Matching(content, args) ==
    LET items == readLatestItems(content)
    IN  {items[i] : i \in {j \in 1..Len(items) :
            /\ ~Truthy(items[j].deleted)
            /\ Truthy(searchScope(args)) => items[j].scope = searchScope(args)
            /\ \A k \in 1..Len(searchTags(args)) :
                  \E n \in 1..Len(items[j].tags.a) : items[j].tags.a[n] = searchTags(args)[k]}}

\* C12: a search filtered by scope and/or tags that returns, returns the
\* same items whether the index file is absent, empty, stale or up to date:
\* always the current, non-deleted items that match the filter.
C12_IndexIsACache ==
    [][(last'.op = "memory.search" /\ last'.result.ok) =>
          \A args \in SearchArgs :
             \/ (last'.result.ok /\ ResultItems(last'.result) = Matching(FileContent(log), args))
             \/ ~(/\ searchUsesIndex(args)
                  /\ HandleSearch(args))]_vars

\* Every live current item of the log is listed under its scope, under each
\* of its tags, and under each of its tags within its scope.
Listed(content, idx) ==
    LET items == NotDeleted(readLatestItems(content))
        In(ids, id) == \E n \in 1..Len(ids) : ids[n] = id
    IN  \A i \in 1..Len(items) :
           /\ In(Bucket(idx.byScope, items[i].scope), items[i].id)
           /\ \A k \in 1..Len(items[i].tags.a) :
                 /\ In(Bucket(idx.byTag, items[i].tags.a[k]), items[i].id)
                 /\ In(Bucket(SubMap(idx.byScopeTag, items[i].scope), items[i].tags.a[k]),
                       items[i].id)

ScopeOnly(args) == Truthy(searchScope(args)) /\ searchTags(args) = <<>>

\* C13: after rebuildIndex the index lists every live current item under its
\* scope and tags, and a search by scope alone that follows returns exactly
\* the live current items of that scope.
C13_RebuildRoundTrip ==
    [][/\ last'.op = "rebuildIndex" =>
             /\ last'.result.ok
             /\ Listed(FileContent(log'), index'.doc)
       /\ (last.op = "rebuildIndex" /\ last'.op = "memory.search") =>
             \A args \in SearchArgs :
                \/ (last'.result.ok /\ ResultItems(last'.result) = Matching(FileContent(log), args))
                \/ ~(/\ ScopeOnly(args) /\ searchUsesIndex(args)
                     /\ HandleSearch(args))]_vars

\* The three mappings of the stored index, Null where the document has none.
Mappings(indexFile) ==
    IF ~indexFile.exists \/ MappingsMissing(indexFile.doc) THEN Null
    ELSE [byScope |-> indexFile.doc.byScope, byTag |-> indexFile.doc.byTag,
          byScopeTag |-> indexFile.doc.byScopeTag]

\* C14: updateIndexFromItems applied a second time with the same items leaves
\* the three mappings as the first application left them.
C14_UpdateIdempotent ==
    [][(last'.op = "updateIndexFromItems" /\ last'.again) =>
          Mappings(index') = Mappings(index)]_vars

\* C14 witness: the same two items have been applied twice in a row to an
\* index that holds tag buckets.
C14_Witness ==
    /\ last.op = "updateIndexFromItems" /\ last.again /\ last.result.ok
    /\ Len(last.items) = 2 /\ last.items[1].id # last.items[2].id
    /\ DOMAIN index.doc.byScopeTag # {}

\* The stored index document is bad: not JSON, of another version, or of the
\* right version without its mappings.
BadDocument(indexFile) ==
    /\ indexFile.exists
    /\ \/ "version" \notin DOMAIN indexFile.doc
       \/ indexFile.doc.version # MEMORY_INDEX_VERSION
       \/ MappingsMissing(indexFile.doc)

EmptiedIndex == [exists |-> TRUE, doc |-> createEmptyIndex(0)]

\* C16: with a bad stored index document, the search or incremental update
\* that follows does what it does on an empty index, and does not fail where
\* it succeeds on an empty index.
C16_BadIndexIsEmpty ==
    [][BadDocument(index) =>
          /\ last'.op = "memory.search" =>
                \A args \in SearchArgs :
                   \/ last'.result = searchOutcome(FileContent(log), EmptiedIndex, args, now)
                   \/ ~HandleSearch(args)
          /\ last'.op = "updateIndexFromItems" =>
                /\ last'.result.ok = ~updateIndexThrows(EmptiedIndex, last'.items, now)
                /\ last'.result.ok =>
                      Mappings(index') = Mappings(updateIndexFromItems(EmptiedIndex, last'.items, now))]_vars

(***************************************************************************)
(* Specification SpecAdds: two processes, each in a memory.add of its own  *)
(* item.  The record is appended under the lock; updateIndexFromItems runs *)
(* after withFileLock has returned (src/specifications.md 609-616).        *)
(***************************************************************************)
AddLocals == [ConcLocals EXCEPT !.op = "memory.add"]

InitAdds ==
    /\ now = 0
    /\ nextUuid = 0
    /\ log = Missing
    /\ tmpFile = Missing
    /\ bakFile = Missing
    /\ corruptFile = Missing
    /\ index \in {Missing, EmptiedIndex}
    /\ lock = NoMarker
    /\ last = NoCall
    /\ resolved = NotResolved
    /\ pc = [p \in Procs |-> "idle"]
    /\ loc = [p \in Procs |-> AddLocals]

\* addMemoryItem: the record, with its randomUUID and new Date(); appendItem
\* then calls withFileLock.
AddBuild(p) ==
    /\ pc[p] = "idle"
    /\ loc' = [loc EXCEPT ![p].updated =
                  addMemoryItem(AddInput(BaseAddArgs), Uuid(nextUuid + 1), now)]
    /\ nextUuid' = nextUuid + 1
    /\ pc' = [pc EXCEPT ![p] = "lock"]
    /\ UNCHANGED <<now, log, tmpFile, bakFile, corruptFile, index, lock, last, resolved>>

NextAdds ==
    \/ \E p \in Procs : AddBuild(p)
    \/ \E p \in Procs : LockBegin(p)
    \/ \E p \in Procs : LockOpen(p)
    \/ \E p \in Procs : LockMeta(p)
    \/ \E p \in Procs : UpdateAppend(p)
    \/ \E p \in Procs : LockRelease(p)
    \/ \E p \in Procs : LockTimeout(p)
    \/ \E p \in Procs : LockStat(p)
    \/ \E p \in Procs : LockDelay(p)
    \/ \E p \in Procs : UpdateFails(p)
    \/ \E p \in Procs : IndexLoad(p)
    \/ \E p \in Procs : IndexSave(p)
    \/ TickConc

SpecAdds == InitAdds /\ [][NextAdds]_vars

\* C15: once the write calls of both processes have completed, the saved
\* index lists the items of both.
C15_IndexKeepsBoth ==
    (\A p \in Procs : pc[p] = "done") => Listed(FileContent(log), index.doc)

\* The positions of a call between creating its marker and unlinking it.
Holding == {"meta", "crit", "running", "exit"}

\* C17: a marker on the path was never left by a completed call: its owner
\* is still between creating and unlinking it, or died there.
C17_MarkerDeletedOnExit ==
    \A p \in Procs :
       (lock # NoMarker /\ lock.owner = p) => pc[p] \in Holding \cup {"crashed"}

\* C17 witness: a call whose operation threw has completed, the marker is
\* gone, and the other process has created its own marker since.
C17_Witness ==
    \E p, q \in Procs :
       /\ pc[p] = "released" /\ loc[p].outcome = "threw"
       /\ lock # NoMarker /\ lock.owner = q /\ pc[q] = "running"

\* C18: a caller that finds the marker present with its elapsed wait above
\* the timeout goes to the timeout error, from which it can only start a new
\* call; and every call begun before the clock's last observed value comes
\* to hold the marker or to the timeout error.
C18_BoundedAcquisition ==
    /\ [][\A p \in Procs :
             /\ (pc[p] = "held" /\ now - loc[p].start > DEFAULT_TIMEOUT_MS /\ pc'[p] # pc[p])
                   => pc'[p] = "timeout"
             /\ (pc[p] = "timeout" /\ pc'[p] # pc[p]) => pc'[p] = "lock"]_vars
    /\ \A p \in Procs :
          (pc[p] = "open" /\ loc[p].start < ClockEnd) ~> (pc[p] \in Holding \cup {"timeout"})

\* C18 witness: a call has timed out while the other process runs its
\* operation.
C18_Witness ==
    \E p, q \in Procs :
       /\ pc[p] = "timeout" /\ now - loc[p].start > DEFAULT_TIMEOUT_MS
       /\ pc[q] = "running" /\ lock # NoMarker /\ lock.owner = q

\* C19: when a process has died holding the marker, and the marker grows
\* stale within the clock's observed range, the other process, calling
\* again after each timeout, comes to hold the lock.
C19_CrashedHolderUnblocks ==
    \A p, q \in Procs :
       (/\ p # q /\ pc[q] = "crashed" /\ pc[p] # "crashed"
        /\ lock # NoMarker /\ lock.owner = q
        /\ lock.mtime + DEFAULT_STALE_MS < ClockEnd)
          ~> (pc[p] \in Holding)

\* C19 witness: the other process has died with its marker on the path, the
\* marker has grown stale, and the caller is about to unlink it.
C19_Witness ==
    \E p, q \in Procs :
       /\ pc[q] = "crashed" /\ lock # NoMarker /\ lock.owner = q
       /\ isLockStale(lock, now) /\ pc[p] = "break"

(***************************************************************************)
(* Specification SpecPrior: the calls of SpecSeq on a log that already     *)
(* holds a record written elsewhere.  The record passes validateMemoryItem *)
(* (importance is any number, tags any array of strings).                  *)
(***************************************************************************)
PriorItems ==
    {SampleItem(Uuid(1), ToISOString(0), ToISOString(0), Str(<<"c">>)),
     [SampleItem(Uuid(1), ToISOString(0), ToISOString(0), Str(<<"c">>))
         EXCEPT !.importance = Num(500)],
     [SampleItem(Uuid(1), ToISOString(0), ToISOString(0), Str(<<"c">>))
         EXCEPT !.tags = Arr(<<Str(<<"X">>), Str(<<"X">>)>>)]}

InitPrior ==
    /\ now = 0
    /\ nextUuid = 1
    /\ \E item \in PriorItems : log = File(<<JSONStringify(item)>>)
    /\ tmpFile = Missing
    /\ bakFile = Missing
    /\ corruptFile = Missing
    /\ index = Missing
    /\ lock = NoMarker
    /\ last = NoCall
    /\ resolved = NotResolved
    /\ pc = [p \in Procs |-> "idle"]
    /\ loc = [p \in Procs |-> NoLocals]

SpecPrior == InitPrior /\ [][NextSeq]_vars

\* importance within [0,1] (in hundredths), and a tag list that
\* normalizeTags leaves as it is.
Normalized(record) ==
    /\ record.importance.t = "number" /\ ~IsNaN(record.importance)
    /\ record.importance.n >= 0 /\ record.importance.n <= 100
    /\ record.tags.t = "array"
    /\ \A i \in 1..Len(record.tags.a) : record.tags.a[i].t = "string"
    /\ normalizeTags(record.tags.a) = record.tags.a

\* C20: every record a call appends to the log has importance within [0,1]
\* and a trimmed, lower-cased, duplicate-free tag list, whatever the log
\* held before.
C20_AppendedNormalized ==
    [][Len(FileContent(log')) = Len(FileContent(log)) + 1 =>
          Normalized(FileContent(log')[Len(FileContent(log'))].value.o)]_vars

(***************************************************************************)
(* SpecRank: searchMemory applied to bounded item lists, queries and       *)
(* scoring configurations.                                                 *)
(***************************************************************************)
MaxRank == 3

\* A timestamp Date.parse does not read: the schema asks for a string only.
BadTime == Str(<<"?">>)

RankItem(id, tags, updatedAt, importance, deleted) ==
    [SampleItem(Uuid(id), ToISOString(0), updatedAt, Str(<<"a", " ", "b">>))
        EXCEPT !.tags = Arr(tags), !.importance = Num(importance), !.deleted = Bool(deleted)]

RankItems ==
    {RankItem(id, tags, updatedAt, importance, FALSE) :
        id \in {1}, tags \in {<<>>, <<TagX>>},
        updatedAt \in {ToISOString(0), ToISOString(DayMs), BadTime},
        importance \in {0, 50}}
    \cup {RankItem(2, <<>>, ToISOString(DayMs), 50, TRUE)}

RankQueries ==
    {[scope |-> Undefined, tags |-> <<>>, text |-> Undefined, limit |-> Undefined,
      includeDeleted |-> FALSE],
     [scope |-> Str(<<"s">>), tags |-> <<TagX>>, text |-> Str(<<"A", " ", "z">>),
      limit |-> Num(2), includeDeleted |-> TRUE]}

\* The documented weights, with the documented kind of half life and with
\* recency switched off by a half life of 0.
RankConfigs == {Scoring, [Scoring EXCEPT !.halfLifeDays = 0]}

InitRank ==
    /\ now = 2 * DayMs
    /\ nextUuid = 0
    /\ log = Missing
    /\ tmpFile = Missing
    /\ bakFile = Missing
    /\ corruptFile = Missing
    /\ index = Missing
    /\ lock = NoMarker
    /\ last = NoCall
    /\ resolved = NotResolved
    /\ pc = [p \in Procs |-> "idle"]
    /\ \E items \in UNION {[1..n -> RankItems] : n \in 0..MaxRank},
          query \in RankQueries, config \in RankConfigs :
          loc = [items |-> items, query |-> query, config |-> config]

\* searchMemory(items, query, config)
Rank ==
    /\ last = NoCall
    /\ last' = [op |-> "searchMemory",
                result |-> Results(searchMemory(loc.items, loc.query, loc.config, now))]
    /\ UNCHANGED <<now, nextUuid, log, tmpFile, bakFile, corruptFile, index, lock, resolved,
                   pc, loc>>

NextRank == Rank

SpecRank == InitRank /\ [][NextRank]_vars

\* C21: the results of searchMemory are in descending order of score, and
\* of two results with the same score the one updated later comes first.
C21_RankedByScoreThenTime ==
    last.op = "searchMemory" =>
       LET r == last.result.results
       IN  \A i, j \in 1..Len(r) :
              i < j =>
                 /\ r[i].score >= r[j].score
                 /\ (/\ r[i].score = r[j].score
                     /\ ~IsNaN(DateParse(r[i].item.updatedAt))
                     /\ ~IsNaN(DateParse(r[j].item.updatedAt)))
                    => DateParse(r[i].item.updatedAt).n >= DateParse(r[j].item.updatedAt).n

(***************************************************************************)
(* SpecFind: memory.add, memory.update, memory.delete and memory.search    *)
(* through the handlers, each writing call followed by its index update.   *)
(***************************************************************************)
TagY == Str(<<"y">>)

FindAddArgs ==
    {[BaseAddArgs EXCEPT !.scope = Str(scope), !.tags = Arr(tags)] :
        scope \in {<<"s">>}, tags \in {<<TagX>>, <<TagY>>, <<Str(<<"constructor">>)>>}}
    \cup {[BaseAddArgs EXCEPT !.scope = Str(<<"t">>), !.tags = Arr(<<TagX>>)]}

FindUpdateArgs ==
    {[id |-> Uuid(1), patch |-> Obj(patch)] :
        patch \in {[deleted |-> Bool(FALSE)], [tags |-> Arr(<<TagY>>)]}}

FindSearchArgs ==
    {[scope |-> Undefined],
     [scope |-> Str(<<"s">>)],
     [scope |-> Str(<<"s">>), tags |-> Arr(<<TagX>>)],
     [scope |-> Str(<<"s">>), tags |-> Arr(<<Str(<<"constructor">>)>>)],
     [scope |-> Undefined, includeDeleted |-> Bool(TRUE)],
     [scope |-> Str(<<"s">>), tags |-> Arr(<<TagX>>), includeDeleted |-> Bool(TRUE)]}

NextFind ==
    \/ \E args \in FindAddArgs : HandleAdd(args)
    \/ \E args \in FindUpdateArgs : HandleUpdate(args)
    \/ \E args \in SampleGetArgs : HandleDelete(args)
    \/ \E args \in FindSearchArgs : HandleSearch(args)
    \/ Tick

SpecFind == InitSeq /\ [][NextFind]_vars

\* The current items of the log that are soft-deleted.
SoftDeleted(content) ==
    LET items == readLatestItems(content)
    IN  {items[i] : i \in {k \in 1..Len(items) : Truthy(items[k].deleted)}}

\* C22: a search that completes without asking for deleted items returns no
\* item whose current record is soft-deleted, and a search that asks for
\* them (with the default limit) returns every such item.
C22_DeletedHidden ==
    [][(last'.op = "memory.search" /\ last'.result.ok) =>
          \A args \in FindSearchArgs :
             \/ /\ last'.result.ok
                /\ IF searchIncludeDeleted(args)
                   THEN SoftDeleted(FileContent(log)) \subseteq ResultItems(last'.result)
                   ELSE SoftDeleted(FileContent(log)) \cap ResultItems(last'.result) = {}
             \/ ~HandleSearch(args)]_vars

\* A search has returned nothing while the log holds a soft-deleted item.
C22_Witness ==
    /\ last.op = "memory.search"
    /\ last.result.ok
    /\ last.result.results = <<>>
    /\ SoftDeleted(FileContent(log)) # {}

\* ---- specification SpecAddSearch: memory.add calls, each with its index
\* update, and searches by scope and tags ----
TaggedSearchArgs ==
    {[scope |-> Str(scope), tags |-> Arr(<<tag>>)] :
        scope \in {<<"s">>, <<"t">>}, tag \in {TagX, TagY, Str(<<"constructor">>)}}

NextAddSearch ==
    \/ \E args \in FindAddArgs : HandleAdd(args)
    \/ \E args \in TaggedSearchArgs : HandleSearch(args)
    \/ Tick

SpecAddSearch == InitSeq /\ [][NextAddSearch]_vars

ageInDays(dateIso, nowMs) ==
    IF IsNaN(DateParse(dateIso)) THEN 0 ELSE (nowMs - DateParse(dateIso).n) \div DayMs

\* The largest 0-based position of one of . ! ? in the snippet, -1 if none.
lastSentence(snippet) ==
    LET at == {i \in 1..Len(snippet) : snippet[i] \in {".", "!", "?"}}
    IN  IF at = {} THEN -1 ELSE (CHOOSE i \in at : \A j \in at : j <= i) - 1

summarizeContent(content, maxLength) ==
    IF Len(content) <= maxLength THEN content
    ELSE LET snippet == SubSeq(content, 1, maxLength)
         IN  IF lastSentence(snippet) * 10 > maxLength * 6
             THEN SubSeq(snippet, 1, lastSentence(snippet) + 1)
             ELSE TrimChars(snippet) \o <<".", ".", ".">>

needsSummary(item, config, nowMs) ==
    /\ ageInDays(item.updatedAt, nowMs) >= config.olderThanDays
    /\ Len(StrChars(item.content)) >= config.maxContentLength

\* tags.join(", ")
RECURSIVE JoinTags(_)
JoinTags(tags) ==
    IF tags = <<>> THEN <<>>
    ELSE IF Len(tags) = 1 THEN StrChars(tags[1])
    ELSE StrChars(tags[1]) \o <<",", " ">> \o JoinTags(Tail(tags))

summarizeItem(item, config, nowMs) ==
    IF ~needsSummary(item, config, nowMs) THEN item.summary
    ELSE LET tagPrefix == IF Len(item.tags.a) > 0
                          THEN <<"T", "a", "g", "s", ":", " ">> \o JoinTags(item.tags.a)
                               \o <<".", " ">>
                          ELSE <<>>
         IN  Str(tagPrefix \o summarizeContent(StrChars(item.content), config.maxContentLength))

\* content.replace(/\s+/g, " ")
RECURSIVE CollapseSpaces(_)
CollapseSpaces(chars) ==
    IF Len(chars) < 2 THEN chars
    ELSE IF chars[1] = " " /\ chars[2] = " " THEN CollapseSpaces(Tail(chars))
    ELSE <<chars[1]>> \o CollapseSpaces(Tail(chars))

\* contentFingerprint: the digest is taken as the normalized text itself.
contentFingerprint(content) == TrimChars(CollapseSpaces(ToLowerChars(StrChars(content))))

\* The scopes of the items in the order of their first item, and the items
\* of one scope (the byScope map of pruneMemory).
ScopesOf(items) == Dedupe([i \in 1..Len(items) |-> items[i].scope])

ScopeItems(items, scope) == SelectSeq(items, LAMBDA item : item.scope = scope)

Action(id, patch, reason) == [id |-> id, patch |-> patch, reason |-> reason]

\* The dedupe loop over the items of one scope: canon holds the first item
\* of each fingerprint.
RECURSIVE dedupeActions(_, _)
dedupeActions(scopeItems, canon) ==
    IF scopeItems = <<>> THEN <<>>
    ELSE LET item == Head(scopeItems)
             same == {i \in 1..Len(canon) :
                         contentFingerprint(canon[i].content) = contentFingerprint(item.content)}
         IN  IF Truthy(item.deleted) THEN dedupeActions(Tail(scopeItems), canon)
             ELSE IF same = {} THEN dedupeActions(Tail(scopeItems), Append(canon, item))
             ELSE LET existing == canon[CHOOSE i \in same : TRUE]
                      mergedTags == Dedupe(existing.tags.a \o item.tags.a)
                  IN  (IF Len(mergedTags) # Len(existing.tags.a)
                       THEN <<Action(existing.id, [tags |-> Arr(mergedTags)],
                                     "merge tags from duplicate")>>
                       ELSE <<>>)
                      \o <<Action(item.id, [deleted |-> Bool(TRUE)],
                                  "duplicate content in scope")>>
                      \o dedupeActions(Tail(scopeItems), canon)

\* b.score - a.score > 0 for score = importance + 1 / (1 + ageDays), cleared
\* of its denominators (ages are not negative).
RetainedAfter(a, b) ==
    b.item.importance.n * (1 + a.ageDays) * (1 + b.ageDays) + 100 * (1 + a.ageDays)
       > a.item.importance.n * (1 + a.ageDays) * (1 + b.ageDays) + 100 * (1 + b.ageDays)

RECURSIVE sortRanked(_)
sortRanked(entries) ==
    IF entries = <<>> THEN <<>>
    ELSE LET sorted == sortRanked(SubSeq(entries, 1, Len(entries) - 1))
             x == entries[Len(entries)]
             stay == {j \in 1..Len(sorted) : ~RetainedAfter(sorted[j], x)}
             at == IF stay = {} THEN 0 ELSE CHOOSE j \in stay : \A k \in stay : k <= j
         IN  SubSeq(sorted, 1, at) \o <<x>> \o SubSeq(sorted, at + 1, Len(sorted))

\* The non-deleted items of one scope with their ages, best first.
ranked(scopeItems, nowMs) ==
    LET live == SelectSeq(scopeItems, LAMBDA item : ~Truthy(item.deleted))
    IN  sortRanked([i \in 1..Len(live) |->
                       [item |-> live[i], ageDays |-> ageInDays(live[i].updatedAt, nowMs)]])

\* Mutant of keep: as if maxPerScope were 0.
keepNone(entries, maxPerScope) == {}

\* The ids of the first maxPerScope ranked entries.
keep(entries, maxPerScope) ==
    {entries[i].item.id : i \in 1..(IF maxPerScope < Len(entries) THEN maxPerScope
                                    ELSE Len(entries))}

\* Mutant of agingOutcome: no summary is ever proposed.
agingOutcomeNoCompress(entry, kept, pruneConfig, summarizationConfig, nowMs) ==
    IF entry.item.id \in kept THEN "retained"
    ELSE IF entry.ageDays >= pruneConfig.deleteOlderThanDays THEN "deleted"
    ELSE "none"

\* What the aging loop does with one ranked entry.
agingOutcome(entry, kept, pruneConfig, summarizationConfig, nowMs) ==
    LET summary == summarizeItem(entry.item, summarizationConfig, nowMs)
    IN  IF entry.item.id \in kept THEN "retained"
        ELSE IF entry.ageDays >= pruneConfig.deleteOlderThanDays THEN "deleted"
        ELSE IF /\ entry.ageDays >= pruneConfig.compressOlderThanDays
                /\ Truthy(summary) /\ summary # entry.item.summary THEN "summarized"
        ELSE "none"

RECURSIVE agingActions(_, _, _, _, _)
agingActions(entries, kept, pruneConfig, summarizationConfig, nowMs) ==
    IF entries = <<>> THEN <<>>
    ELSE LET entry == Head(entries)
             outcome == agingOutcome(entry, kept, pruneConfig, summarizationConfig, nowMs)
         IN  (CASE outcome = "deleted" ->
                     <<Action(entry.item.id, [deleted |-> Bool(TRUE)], "aged out")>>
                [] outcome = "summarized" ->
                     <<Action(entry.item.id,
                              [summary |-> summarizeItem(entry.item, summarizationConfig, nowMs)],
                              "compress older memory")>>
                [] OTHER -> <<>>)
             \o agingActions(Tail(entries), kept, pruneConfig, summarizationConfig, nowMs)

\* The actions pruneMemory pushes for one scope.
scopeActions(scopeItems, pruneConfig, summarizationConfig, nowMs) ==
    LET entries == ranked(scopeItems, nowMs)
    IN  (IF pruneConfig.dedupe THEN dedupeActions(scopeItems, <<>>) ELSE <<>>)
        \o agingActions(entries, keep(entries, pruneConfig.maxPerScope), pruneConfig,
                        summarizationConfig, nowMs)

RECURSIVE Flatten(_)
Flatten(seqs) == IF seqs = <<>> THEN <<>> ELSE Head(seqs) \o Flatten(Tail(seqs))

CountReason(actions, reason) ==
    Cardinality({i \in 1..Len(actions) : actions[i].reason = reason})

\* pruneMemory(items, pruneConfig, summarizationConfig, now)
pruneMemory(items, pruneConfig, summarizationConfig, nowMs) ==
    LET scopes == ScopesOf(items)
        actions == Flatten([s \in 1..Len(scopes) |->
                               scopeActions(ScopeItems(items, scopes[s]), pruneConfig,
                                            summarizationConfig, nowMs)])
        retained == Flatten([s \in 1..Len(scopes) |->
                      LET entries == ranked(ScopeItems(items, scopes[s]), nowMs)
                      IN  SelectSeq(entries, LAMBDA e :
                              e.item.id \in keep(entries, pruneConfig.maxPerScope))])
    IN  [actions |-> actions,
         stats |-> [deduped |-> CountReason(actions, "duplicate content in scope"),
                    deleted |-> CountReason(actions, "aged out"),
                    summarized |-> CountReason(actions, "compress older memory"),
                    retained |-> Len(retained)]]

\* The loop of memory.prune over the actions: each is applied by
\* updateMemoryItem to the log as the actions before it left it.
RECURSIVE applyActions(_, _, _)
applyActions(content, actions, nowMs) ==
    IF actions = <<>> THEN [content |-> content, updates |-> <<>>]
    ELSE LET existing == getMemoryItem(content, Head(actions).id)
             updated == MergePatch(existing, Head(actions).patch, nowMs)
             rest == applyActions(IF existing = Null THEN content
                                  ELSE Append(content, JSONStringify(updated)),
                                  Tail(actions), nowMs)
         IN  [content |-> rest.content,
              updates |-> (IF existing = Null THEN <<>> ELSE <<updated>>) \o rest.updates]

pruneDryRun(args) ==
    IF GetField(args, "dryRun").t = "boolean" THEN GetField(args, "dryRun").b ELSE FALSE

\* The items memory.prune hands to pruneMemory.
pruneItems(content, args) ==
    LET scope == GetField(args, "scope")
    IN  IF scope.t = "string" /\ Truthy(scope)
        THEN SelectSeq(readLatestItems(content), LAMBDA item : item.scope = scope)
        ELSE readLatestItems(content)

\* What a memory.prune call leaves in `last`: its arguments, the
\* configuration it ran with, and what it returned or threw.
PruneCalled(args, config, result) ==
    [op |-> "memory.prune", args |-> args, config |-> config, result |-> result]

\* case "memory.prune", with the prune and summarization settings of the
\* configuration.
HandlePrune(args, config) ==
    \E result \in {pruneMemory(pruneItems(FileContent(log), args), config.prune,
                                config.summarization, now)} :
    \E applied \in {applyActions(FileContent(log), result.actions, now)} :
    \E returned \in {[ok |-> TRUE, actions |-> result.actions, stats |-> result.stats,
                       dryRun |-> pruneDryRun(args)]} :
        IF pruneDryRun(args) \/ result.actions = <<>>
        THEN /\ log' = ensureFile(log)
             /\ last' = PruneCalled(args, config, returned)
             /\ UNCHANGED <<now, nextUuid, tmpFile, bakFile, corruptFile, index, lock, resolved,
                            pc, loc>>
        ELSE /\ LockedSection
             /\ log' = File(applied.content)
             /\ index' = IF applied.updates = <<>> THEN index
                         ELSE indexAfterUpdate(index, applied.updates, now)
             /\ last' = PruneCalled(args, config,
                                     IF applied.updates # <<>>
                                        /\ updateIndexThrows(index, applied.updates, now)
                                     THEN Err(ErrType) ELSE returned)
             /\ UNCHANGED <<now, nextUuid, tmpFile, bakFile, corruptFile, resolved, pc, loc>>

(***************************************************************************)
(* SpecPrune: memory.prune through its handler, over logs of up to         *)
(* MaxPruneItems items written on earlier days.                            *)
(***************************************************************************)
MaxPruneItems == 3

PruneItem(id, content, tags, day, importance, summary) ==
    [SampleItem(Uuid(id), ToISOString(0), ToISOString(day * DayMs), Str(content))
        EXCEPT !.tags = Arr(tags), !.importance = Num(importance), !.summary = summary]

\* Each item is a text, a near copy of it under another tag, or a text longer
\* than the summarization limit, written 3 days or 1 day ago, or a
\* soft-deleted copy of the text, or a long text under the tag "constructor".
PruneSamples(id) ==
    {PruneItem(id, <<"X", " ", "x">>, <<TagX>>, 0, 10, Null),
     PruneItem(id, <<"X", " ", "x">>, <<TagX>>, 2, 10, Null),
     PruneItem(id, <<"x", " ", " ", "x">>, <<TagY>>, 0, 90, Null),
     PruneItem(id, <<"x", " ", " ", "x">>, <<TagY>>, 0, 10, Null),
     PruneItem(id, <<"c", "c", "c", ".", "c">>, <<TagX>>, 0, 10, Null),
     PruneItem(id, <<"c", "c", "c", ".", "c">>, <<TagX>>, 2, 10, Null),
     [PruneItem(id, <<"X", " ", "x">>, <<TagX>>, 0, 10, Null) EXCEPT !.deleted = Bool(TRUE)],
     PruneItem(id, <<"c", "c", "c", ".", "c">>, <<Str(<<"constructor">>)>>, 0, 10, Null)}

\* The logs of n items with the ids 1..n.
RECURSIVE PruneLines(_)
PruneLines(n) ==
    IF n = 0 THEN {<<>>}
    ELSE {Append(lines, JSONStringify(item)) :
             lines \in PruneLines(n - 1), item \in PruneSamples(n)}

PruneLogs == {File(lines) : lines \in UNION {PruneLines(n) : n \in 0..MaxPruneItems}}

\* The index file as the memory.add calls that wrote the items left it, each
\* with its index update.
RECURSIVE IndexAfterAdds(_)
IndexAfterAdds(items) ==
    IF items = <<>> THEN Missing
    ELSE indexAfterUpdate(IndexAfterAdds(SubSeq(items, 1, Len(items) - 1)),
                          <<items[Len(items)]>>, 0)

PruneConfigs ==
    [prune : [maxPerScope : {1, 2}, deleteOlderThanDays : {2, 9999},
              compressOlderThanDays : {1}, dedupe : BOOLEAN],
     summarization : [maxContentLength : {4}, olderThanDays : {1}]]

PruneArgs ==
    {[dryRun |-> Undefined, scope |-> Undefined],
     [dryRun |-> Bool(TRUE), scope |-> Undefined],
     [dryRun |-> Bool(FALSE), scope |-> Str(<<"s">>)]}

InitPrune ==
    /\ now = 3 * DayMs
    /\ nextUuid = MaxPruneItems
    /\ log \in PruneLogs
    /\ tmpFile = Missing
    /\ bakFile = Missing
    /\ corruptFile = Missing
    /\ index = IndexAfterAdds(readAllItems(FileContent(log)))
    /\ lock = NoMarker
    /\ last = NoCall
    /\ resolved = NotResolved
    /\ pc = [p \in Procs |-> "idle"]
    /\ loc = [p \in Procs |-> NoLocals]

\* A call of memory.prune on the log, or the call that carries out a dry run
\* just made, under the same configuration.
PruneCall ==
    \E args \in PruneArgs, config \in PruneConfigs :
       /\ \/ last = NoCall
          \/ /\ last.op = "memory.prune" /\ pruneDryRun(last.args)
             /\ ~pruneDryRun(args) /\ config = last.config
       /\ HandlePrune(args, config)

NextPrune == PruneCall

SpecPrune == InitPrune /\ [][NextPrune]_vars

\* The tags of an item, as a set.
TagSet(item) == {item.tags.a[i] : i \in 1..Len(item.tags.a)}

\* Two live items of one scope whose contents agree up to case and white
\* space, with different tags, and no third live item of the scope like them.
DuplicatePair(items, a, b) ==
    /\ a.id # b.id
    /\ ~Truthy(a.deleted) /\ ~Truthy(b.deleted)
    /\ a.scope = b.scope
    /\ contentFingerprint(a.content) = contentFingerprint(b.content)
    /\ TagSet(a) # TagSet(b)
    /\ \A i \in 1..Len(items) :
          (/\ items[i].scope = a.scope /\ ~Truthy(items[i].deleted)
           /\ contentFingerprint(items[i].content) = contentFingerprint(a.content))
          => items[i].id \in {a.id, b.id}

\* C25: after a memory.prune that is not a dry run, with dedupe enabled, of
\* two duplicate items with different tags exactly one is still not
\* soft-deleted, and its tags are the union of the tags of the two.
C25_DedupKeepsOne ==
    [][(/\ last'.op = "memory.prune"
        /\ ~pruneDryRun(last'.args)
        /\ last'.config.prune.dedupe)
       => LET before == pruneItems(FileContent(log), last'.args)
              after == readLatestItems(FileContent(log'))
          IN  \A i, j \in 1..Len(before) :
                 DuplicatePair(before, before[i], before[j]) =>
                    \E k \in 1..Len(after) :
                       /\ after[k].id \in {before[i].id, before[j].id}
                       /\ ~Truthy(after[k].deleted)
                       /\ TagSet(after[k]) = TagSet(before[i]) \cup TagSet(before[j])
                       /\ \A m \in 1..Len(after) :
                             (after[m].id \in {before[i].id, before[j].id} /\ m # k)
                             => Truthy(after[m].deleted)]_vars

\* importance + 1 / (1 + ageDays) of a is greater than that of b.
ScoresHigher(a, b, nowMs) ==
    LET da == 1 + ageInDays(a.updatedAt, nowMs)
        db == 1 + ageInDays(b.updatedAt, nowMs)
    IN  a.importance.n * da * db + 100 * db > b.importance.n * da * db + 100 * da

\* The ids of the top n non-deleted items of each scope by retention score,
\* items of equal score in the order of the list.
TopRetained(items, n, nowMs) ==
    {items[i].id : i \in {k \in 1..Len(items) :
        /\ ~Truthy(items[k].deleted)
        /\ Cardinality({j \in 1..Len(items) :
              /\ j # k
              /\ items[j].scope = items[k].scope
              /\ ~Truthy(items[j].deleted)
              /\ \/ ScoresHigher(items[j], items[k], nowMs)
                 \/ ~ScoresHigher(items[k], items[j], nowMs) /\ j < k}) < n}}

\* C26 as claimed: no action of any kind is proposed for an item among the
\* top maxPerScope non-deleted items of its scope.
C26_NoActionOnRetained ==
    [][(last'.op = "memory.prune" /\ last'.result.ok) =>
          \A items \in {pruneItems(FileContent(log), last'.args)} :
          \A top \in {TopRetained(items, last'.config.prune.maxPerScope, now)} :
              \A i \in 1..Len(last'.result.actions) :
                 last'.result.actions[i].id \notin top]_vars

\* C26 as amended: no aging action (soft-delete 'aged out' or summary patch)
\* is proposed for an item among the top maxPerScope non-deleted items of
\* its scope, whatever its age; the dedupe pass may still propose a
\* soft-delete or a tag merge for it.
C26_NoAgingOnRetained ==
    [][(last'.op = "memory.prune" /\ last'.result.ok) =>
          \A items \in {pruneItems(FileContent(log), last'.args)} :
          \A top \in {TopRetained(items, last'.config.prune.maxPerScope, now)} :
              \A i \in 1..Len(last'.result.actions) :
                 last'.result.actions[i].reason \in {"aged out", "compress older memory"}
                 => last'.result.actions[i].id \notin top]_vars

\* A prune has retained an item and aged out another.
C26_Witness ==
    /\ last.op = "memory.prune"
    /\ last.result.ok
    /\ last.result.stats.retained > 0
    /\ last.result.stats.deleted > 0

\* The actions of a list that name the item.
ActionsOn(actions, item) == {actions[i] : i \in {k \in 1..Len(actions) : actions[k].id = item.id}}

Deletions(actions) == {a \in actions : "deleted" \in DOMAIN a.patch}

SummaryPatches(actions) == {a \in actions : "summary" \in DOMAIN a.patch}

\* What the claim lets the prune propose for a non-deleted item outside the
\* retained top maxPerScope, given the actions on the item that count.
AgedAsClaimed(item, on, config, nowMs) ==
    LET age == ageInDays(item.updatedAt, nowMs)
        summary == summarizeItem(item, config.summarization, nowMs)
    IN  IF age >= config.prune.deleteOlderThanDays
        THEN \E a \in Deletions(on) : a.reason = "aged out"
        ELSE IF age >= config.prune.compressOlderThanDays
        THEN /\ Deletions(on) = {}
             /\ (summary # item.summary) <=> (\E a \in SummaryPatches(on) : a.patch.summary = summary)
        ELSE on = {}

IdsOf(ids) == {ids[i] : i \in 1..Len(ids)}

\* The call asked for a dry run.
AskedDryRun(call) == GetField(call.args, "dryRun") = Bool(TRUE)

\* The records appended to the log are one per action, in order, each for
\* the action's id and carrying the fields of its patch.
AppliedInOrder(before, after, actions) ==
    /\ Len(after) = Len(before) + Len(actions)
    /\ Len(readAllItems(after)) = Len(after)
    /\ SubSeq(after, 1, Len(before)) = before
    /\ \A i \in 1..Len(actions) :
          LET record == readAllItems(after)[Len(before) + i]
          IN  /\ record.id = actions[i].id
              /\ \A f \in DOMAIN actions[i].patch : record[f] = actions[i].patch[f]

\* The index lists the id of the item under its scope, its tags and its tags
\* within its scope, and nowhere else; nowhere at all if it is soft-deleted.
ListedExactly(doc, item) ==
    LET live == ~Truthy(item.deleted)
        scopes == DOMAIN doc.byScope \cup DOMAIN doc.byScopeTag \cup {item.scope}
        tags == DOMAIN doc.byTag \cup TagSet(item)
               \cup UNION {DOMAIN doc.byScopeTag[k] : k \in DOMAIN doc.byScopeTag}
    IN  /\ \A k \in scopes :
              item.id \in IdsOf(Bucket(doc.byScope, k)) <=> (live /\ k = item.scope)
        /\ \A t \in tags :
              item.id \in IdsOf(Bucket(doc.byTag, t)) <=> (live /\ t \in TagSet(item))
        /\ \A k \in scopes, t \in tags :
              item.id \in IdsOf(Bucket(SubMap(doc.byScopeTag, k), t))
              <=> (live /\ k = item.scope /\ t \in TagSet(item))

\* C28: a memory.prune with dryRun = true changes neither the log nor the
\* index; the call that then carries it out returns the same actions and
\* stats; a call without dryRun returns, has appended one record per
\* returned action, in order, with the action's patch, and leaves the index
\* listing every id it updated as its current record says.
C28_DryRunFrame ==
    [][last'.op = "memory.prune" =>
          /\ AskedDryRun(last') => (log' = log /\ index' = index)
          /\ (last.op = "memory.prune" /\ AskedDryRun(last) /\ ~AskedDryRun(last'))
             => /\ last'.result.ok
                /\ last'.result.actions = last.result.actions
                /\ last'.result.stats = last.result.stats
          /\ ~AskedDryRun(last')
             => /\ last'.result.ok
                /\ AppliedInOrder(FileContent(log), FileContent(log'), last'.result.actions)
                /\ \A i \in 1..Len(last'.result.actions) :
                      ListedExactly(index'.doc,
                                    getMemoryItem(FileContent(log'), last'.result.actions[i].id))]_vars

\* A repairMemoryFile call of process 1 has returned.
RepairDone == pc[1] = "done" /\ loc[1].op = "repair" /\ last.op = "repair"

\* The primary log has been replaced: the rename left the old file as backup.
Rewritten == bakFile.exists

\* What a repair that rewrites leaves in the log, and the flags, given the
\* condition under which compaction takes place.
RepairOutcome(orig, compacts) ==
    LET valid == readAllItems(orig)
        invalid == corruptEntries(orig) # <<>>
    IN  /\ Rewritten <=> (invalid \/ compacts)
        /\ Rewritten => FileContent(log) = RewriteContent(IF compacts THEN selectLatestItems(valid)
                                                          ELSE valid)
        /\ ~Rewritten => log = File(orig)
        /\ last.result.repaired <=> invalid
        /\ last.result.compacted <=> compacts

\* C29 as claimed: a repair rewrites the log exactly when it found an
\* invalid line or compaction was requested, to the valid lines in their
\* order, or to the latest view when compaction was requested; otherwise the
\* log is untouched; the flags say which took place.
C29_RepairRewrites == RepairDone => RepairOutcome(loc[1].orig, loc[1].compact)

\* C29 as amended: compaction takes place when it was requested and the log
\* holds at least one valid line.
C29_RepairRewritesValid ==
    RepairDone => RepairOutcome(loc[1].orig,
                                loc[1].compact /\ readAllItems(loc[1].orig) # <<>>)

\* A repair with compaction has returned, having dropped a superseded line.
C29_Witness ==
    /\ RepairDone
    /\ last.result.compacted
    /\ Len(FileContent(log)) < Len(readAllItems(loc[1].orig))


(***************************************************************************)
(* getMemoryHealth (src/src/memory-store.ts 294-327) on logs of blank,     *)
(* undecodable and valid lines, with the three thresholds given or left    *)
(* to their defaults.  A reason is held as a record: its tag and the       *)
(* numbers the text of the tag carries.                                    *)
(***************************************************************************)
MaxHealthLines == 3

DefaultMaxLineRatio == 2
DefaultMinLines == 200
DefaultMaxBytes == 5000000

\* value ?? fallback
Nullish(value, fallback) ==
    IF value.t \in {"undefined", "null"} THEN fallback ELSE value.n

\* (validLines / latestItems).toFixed(2), in hundredths.
toFixed2(validLines, latestItems) ==
    (validLines * 200 + latestItems) \div (2 * latestItems)

\* Mutant of getMemoryHealth: the ratio is looked at only when the number
\* of valid lines is greater than minLines.
getMemoryHealthAboveMin(content, options) ==
    LET maxLineRatio == Nullish(options.maxLineRatio, DefaultMaxLineRatio)
        minLines == Nullish(options.minLines, DefaultMinLines)
        maxBytes == Nullish(options.maxBytes, DefaultMaxBytes)
        stats == readAllStats(content)
        latestItems == selectLatestItems(readAllItems(content))
        ratioReason ==
            IF /\ stats.validLines > minLines
               /\ Len(latestItems) > 0
               /\ stats.validLines >= maxLineRatio * Len(latestItems)
            THEN <<[tag |-> "line-ratio",
                    ratio |-> toFixed2(stats.validLines, Len(latestItems)),
                    limit |-> maxLineRatio]>>
            ELSE <<>>
        bytesReason ==
            IF stats.bytes >= maxBytes
            THEN <<[tag |-> "bytes", bytes |-> stats.bytes, limit |-> maxBytes]>>
            ELSE <<>>
        needsRepair == stats.invalidLines > 0
        repairReason ==
            IF needsRepair
            THEN <<[tag |-> "invalid-lines", invalidLines |-> stats.invalidLines]>>
            ELSE <<>>
        reasons == ratioReason \o bytesReason \o repairReason
    IN  [stats |-> stats,
         errors |-> readAllErrors(content),
         latestItems |-> Len(latestItems),
         needsRepair |-> needsRepair,
         shouldCompact |-> Len(reasons) > 0,
         reasons |-> reasons]

\* getMemoryHealth(memoryFile, options) for a file holding `content`.  The
\* ratio validLines / latestItems.length is compared with maxLineRatio by
\* cross-multiplication.
getMemoryHealth(content, options) ==
    LET maxLineRatio == Nullish(options.maxLineRatio, DefaultMaxLineRatio)
        minLines == Nullish(options.minLines, DefaultMinLines)
        maxBytes == Nullish(options.maxBytes, DefaultMaxBytes)
        stats == readAllStats(content)
        latestItems == selectLatestItems(readAllItems(content))
        ratioReason ==
            IF /\ stats.validLines >= minLines
               /\ Len(latestItems) > 0
               /\ stats.validLines >= maxLineRatio * Len(latestItems)
            THEN <<[tag |-> "line-ratio",
                    ratio |-> toFixed2(stats.validLines, Len(latestItems)),
                    limit |-> maxLineRatio]>>
            ELSE <<>>
        bytesReason ==
            IF stats.bytes >= maxBytes
            THEN <<[tag |-> "bytes", bytes |-> stats.bytes, limit |-> maxBytes]>>
            ELSE <<>>
        needsRepair == stats.invalidLines > 0
        repairReason ==
            IF needsRepair
            THEN <<[tag |-> "invalid-lines", invalidLines |-> stats.invalidLines]>>
            ELSE <<>>
        reasons == ratioReason \o bytesReason \o repairReason
    IN  [stats |-> stats,
         errors |-> readAllErrors(content),
         latestItems |-> Len(latestItems),
         needsRepair |-> needsRepair,
         shouldCompact |-> Len(reasons) > 0,
         reasons |-> reasons]

HealthLogs ==
    {Missing} \cup
    {File(lines) : lines \in UNION {[1..n -> RewriteLines] : n \in 0..MaxHealthLines}}

\* The thresholds a call passes: each left out, or a small number that the
\* sampled logs fall short of, meet and pass.
HealthOptions ==
    [maxLineRatio : {Undefined, Num(1), Num(2)},
     minLines : {Undefined, Num(0), Num(2)},
     maxBytes : {Undefined, Num(6)}]

InitHealth ==
    /\ now = 0
    /\ nextUuid = 0
    /\ log \in HealthLogs
    /\ tmpFile = Missing
    /\ bakFile = Missing
    /\ corruptFile = Missing
    /\ index = Missing
    /\ lock = NoMarker
    /\ last = NoCall
    /\ resolved = NotResolved
    /\ pc = [p \in Procs |-> "idle"]
    /\ loc = [p \in Procs |-> NoLocals]

\* getMemoryHealth(memoryFile, options); readAllItems creates a missing file.
Health ==
    /\ last = NoCall
    /\ \E options \in HealthOptions :
          /\ log' = ensureFile(log)
          /\ last' = [op |-> "getMemoryHealth", options |-> options,
                      result |-> getMemoryHealth(FileContent(log), options)]
    /\ UNCHANGED <<now, nextUuid, tmpFile, bakFile, corruptFile, index, lock, resolved, pc, loc>>

NextHealth == Health

SpecHealth == InitHealth /\ [][NextHealth]_vars

\* The numbers the claim speaks of, counted on the log itself.
ValidCount == Cardinality({i \in 1..Len(FileContent(log)) : parseLine(FileContent(log)[i]) # Null})

InvalidCount == Cardinality({i \in 1..Len(FileContent(log)) : parseLineError(FileContent(log)[i])})

LatestCount ==
    Cardinality({parseLine(FileContent(log)[i]).id :
                    i \in {j \in 1..Len(FileContent(log)) : parseLine(FileContent(log)[j]) # Null}})

\* The thresholds in force for the call that returned.
HealthLimit(name, fallback) == Nullish(last.options[name], fallback)

\* The ratio of valid lines to resolved items is at least maxLineRatio.
RatioMet ==
    /\ LatestCount > 0
    /\ ValidCount >= HealthLimit("maxLineRatio", DefaultMaxLineRatio) * LatestCount

\* The tags of the reasons returned, in order.
ReasonTags == [i \in 1..Len(last.result.reasons) |-> last.result.reasons[i].tag]

\* The tags of the conditions that hold, in the order ratio, bytes, invalid.
TagsFor(ratio, bytes, invalid) ==
    (IF ratio THEN <<"line-ratio">> ELSE <<>>)
    \o (IF bytes THEN <<"bytes">> ELSE <<>>)
    \o (IF invalid THEN <<"invalid-lines">> ELSE <<>>)

HealthAgrees(ratio, bytes, invalid) ==
    /\ last.result.shouldCompact <=> (ratio \/ bytes \/ invalid)
    /\ ReasonTags = TagsFor(ratio, bytes, invalid)
    /\ last.result.needsRepair <=> invalid

\* C30: health recommends compaction exactly when the ratio of valid lines
\* to resolved items is at least maxLineRatio (looked at only when the
\* number of valid lines exceeds minLines), the byte size exceeds maxBytes,
\* or an invalid line is present; the reasons carry one tag per condition
\* that holds and needsRepair is true exactly when an invalid line is
\* present.
C30_HealthAbove ==
    last.op = "getMemoryHealth" =>
        HealthAgrees(ValidCount > HealthLimit("minLines", DefaultMinLines) /\ RatioMet,
                     byteLength(FileContent(log)) > HealthLimit("maxBytes", DefaultMaxBytes),
                     InvalidCount > 0)

\* C30, amended: as above, with the ratio looked at when the number of
\* valid lines is at least minLines, and the byte size condition met when
\* the size is at least maxBytes.
C30_HealthAtLeast ==
    last.op = "getMemoryHealth" =>
        HealthAgrees(ValidCount >= HealthLimit("minLines", DefaultMinLines) /\ RatioMet,
                     byteLength(FileContent(log)) >= HealthLimit("maxBytes", DefaultMaxBytes),
                     InvalidCount > 0)

\* C30: a health call has returned all three reasons, with the number of
\* valid lines equal to minLines and the byte size above maxBytes.
C30_Witness ==
    /\ last.op = "getMemoryHealth"
    /\ Len(last.result.reasons) = 3
    /\ ValidCount = HealthLimit("minLines", DefaultMinLines)
    /\ byteLength(FileContent(log)) > HealthLimit("maxBytes", DefaultMaxBytes)


(***************************************************************************)
(* compactMemoryFile and repairMemoryFile on logs that also hold           *)
(* soft-deleted records: the steps of SpecRewrite from a wider set of      *)
(* starting logs.                                                          *)
(***************************************************************************)
DeletedItem(id, updatedAt) == [RewriteItem(id, updatedAt) EXCEPT !.deleted = Bool(TRUE)]

CompactLines ==
    RewriteLines \cup {JSONStringify(DeletedItem(1, 0)), JSONStringify(DeletedItem(1, 1))}

CompactLogs ==
    {File(lines) : lines \in UNION {[1..n -> CompactLines] : n \in 0..MaxRewriteLines}}

InitCompact ==
    /\ now = 0
    /\ nextUuid = 0
    /\ log \in CompactLogs
    /\ tmpFile = Missing
    /\ bakFile = Missing
    /\ corruptFile = Missing
    /\ index = Missing
    /\ lock = NoMarker
    /\ last = NoCall
    /\ resolved = NotResolved
    /\ pc = [p \in Procs |-> "idle"]
    /\ loc = [p \in Procs |-> NoLocals]

SpecCompact == InitCompact /\ [][NextRewrite]_vars

\* A compactMemoryFile call of process 1 has returned.
CompactDone == pc[1] = "done" /\ loc[1].op = "compact" /\ last.op = "compact"

\* The ids of the records in a log.
LoggedIds(content) == {readAllItems(content)[i].id : i \in 1..Len(readAllItems(content))}

\* The lines of `content` that hold a record of `id`.
LinesOf(content, id) ==
    {i \in 1..Len(content) : content[i].kind = "json" /\ parseLine(content[i]) # Null
                               /\ parseLine(content[i]).id = id}

Untouched(items, actions) ==
    {i \in 1..Len(items) : ~Truthy(items[i].deleted) /\ ActionsOn(actions, items[i]) = {}}

\* C32: the retained count of a prune is the number of non-deleted items
\* that receive no action, the items outside the top maxPerScope whose age
\* is below both compressOlderThanDays and deleteOlderThanDays included.
C32_RetainedCountsUntouched ==
    [][(last'.op = "memory.prune" /\ last'.result.ok) =>
          \A items \in {pruneItems(FileContent(log), last'.args)} :
              last'.result.stats.retained
                  = Cardinality(Untouched(items, last'.result.actions))]_vars


(***************************************************************************)
(* A reader beside a writer.  Process 2 runs readAllItems                  *)
(* (src/src/memory-store.ts 105-134), which every read operation goes      *)
(* through, without the lock: ensureFile is fs.access, then, if that       *)
(* failed, fs.writeFile(path, ""), then fs.readFile.  Process 1 runs an    *)
(* append, compactMemoryFile or repairMemoryFile under the lock, one       *)
(* file-system call per step.                                              *)
(***************************************************************************)
RaceItem == RewriteItem(2, 1)

ReaderLocals == [op |-> "readAllItems", present |-> FALSE]

RaceLogs == {Missing} \cup RewriteLogs

InitReadRace ==
    /\ now = 0
    /\ nextUuid = 0
    /\ log \in RaceLogs
    /\ tmpFile = Missing
    /\ bakFile = Missing
    /\ corruptFile = Missing
    /\ index = Missing
    /\ lock = NoMarker
    /\ last = NoCall
    /\ resolved = NotResolved
    /\ pc = [p \in Procs |-> "idle"]
    /\ loc = [p \in Procs |-> NoLocals]

\* The writer calls appendItem(memoryFile, item).
AppendCall(p) ==
    /\ pc[p] = "idle"
    /\ loc' = [loc EXCEPT ![p] = RewriteLocals([op |-> "append", compact |-> FALSE,
                                                quarantine |-> FALSE], FileContent(log))]
    /\ SetPc(p, "lock")
    /\ UNCHANGED <<log, tmpFile, bakFile, corruptFile, notFiles>>

\* The operation of appendItem: ensureFile and fs.appendFile.
AppendWrite(p) ==
    /\ pc[p] = "crit"
    /\ loc[p].op = "append"
    /\ log' = appendItem(log, RaceItem)
    /\ SetPc(p, "exit")
    /\ UNCHANGED <<tmpFile, bakFile, corruptFile, loc, notFiles>>

\* A read operation begins: readAllItems calls ensureFile.
ReadCall(p) ==
    /\ pc[p] = "idle"
    /\ loc' = [loc EXCEPT ![p] = ReaderLocals]
    /\ SetPc(p, "access")
    /\ UNCHANGED <<log, tmpFile, bakFile, corruptFile, notFiles>>

\* ensureFile: fs.access(filePath) succeeds or throws.
EnsureAccess(p) ==
    /\ pc[p] = "access"
    /\ loc' = [loc EXCEPT ![p].present = log.exists]
    /\ SetPc(p, IF log.exists THEN "read" ELSE "create")
    /\ UNCHANGED <<log, tmpFile, bakFile, corruptFile, notFiles>>

\* ensureFile: catch { fs.writeFile(filePath, "") }, which creates the file
\* or replaces the content of the file the path names by now.
EnsureCreate(p) ==
    /\ pc[p] = "create"
    /\ log' = File(<<>>)
    /\ SetPc(p, "read")
    /\ UNCHANGED <<tmpFile, bakFile, corruptFile, loc, notFiles>>

\* fs.readFile and the scan of the lines; between the two renames of a
\* rewrite the path names no file and readFile throws ENOENT.
ReadFile(p) ==
    /\ pc[p] = "read"
    /\ SetPc(p, "done")
    /\ last' = IF log.exists
               THEN [op |-> "readAllItems",
                     result |-> [ok |-> TRUE, items |-> readAllItems(FileContent(log))]]
               ELSE [op |-> "readAllItems", result |-> [ok |-> FALSE]]
    /\ UNCHANGED <<now, nextUuid, log, tmpFile, bakFile, corruptFile, index, lock, resolved, loc>>

NextReadRace ==
    \/ AppendCall(1)
    \/ RewriteCall(1)
    \/ LockBegin(1)
    \/ LockOpen(1)
    \/ LockMeta(1)
    \/ AppendWrite(1)
    \/ CompactRead(1)
    \/ RepairRead(1)
    \/ QuarantineWrite(1)
    \/ WriteTemp(1)
    \/ RenameToBackup(1)
    \/ RenameToPrimary(1)
    \/ LockRelease(1)
    \/ RewriteReturn(1)
    \/ ReadCall(2)
    \/ EnsureAccess(2)
    \/ EnsureCreate(2)
    \/ ReadFile(2)

SpecReadRace == InitReadRace /\ [][NextReadRace]_vars

\* C33: no step of a read operation changes the content of the log,
\* whatever the writer has done between the reader's steps: the records the
\* writer has put in the primary log stay there.
C33_ReadKeepsLog ==
    [][pc'[2] # pc[2] => FileContent(log') = FileContent(log)]_vars

\* C34: when the two concurrent updates of the item, one setting content
\* and one setting importance, have both returned successfully, the record
\* resolved as current carries both patches' values.
C34_NoLostUpdate ==
    (\A p \in Procs : pc[p] = "done") =>
        \A current \in {getMemoryItem(FileContent(log), ConcItem.id)} :
            /\ current.content = ConcPatches[1].content
            /\ current.importance = clampImportance(ConcPatches[2].importance, ConcItem.importance)


(***************************************************************************)
(* withFileLock (src/src/file-lock.ts 43-79) with an operation that may    *)
(* throw any error, a file-system error with code EEXIST included.  The    *)
(* operation runs inside the try block whose catch handles the EEXIST of   *)
(* fs.open, so an error it throws passes through the finally and reaches   *)
(* that catch.  Each process makes one call; runs counts the times its     *)
(* operation was started.                                                  *)
(***************************************************************************)
MaxRuns == 2

ThrowLocals == [op |-> "withFileLock", start |-> 0, wake |-> 0, outcome |-> "none", runs |-> 0]

InitLockThrow ==
    /\ now = 0
    /\ nextUuid = 0
    /\ log = Missing
    /\ tmpFile = Missing
    /\ bakFile = Missing
    /\ corruptFile = Missing
    /\ index = Missing
    /\ lock \in {NoMarker, Marker(0, 0)}
    /\ last = NoCall
    /\ resolved = NotResolved
    /\ pc = [p \in Procs |-> "lock"]
    /\ loc = [p \in Procs |-> ThrowLocals]

\* return await operation(): the operation starts.
OperationRun(p) ==
    /\ pc[p] = "crit"
    /\ loc[p].runs < MaxRuns
    /\ loc' = [loc EXCEPT ![p].runs = @ + 1]
    /\ SetPc(p, "running")
    /\ UNCHANGED <<lock, notLock>>

\* The operation returns, throws an error, or throws a file-system error
\* whose code is EEXIST.
OperationRaise(p) ==
    /\ pc[p] = "running"
    /\ \E outcome \in {"returned", "threw", "threwEEXIST"} :
          loc' = [loc EXCEPT ![p].outcome = outcome]
    /\ SetPc(p, "exit")
    /\ UNCHANGED <<lock, notLock>>

\* finally: handle.close and fs.unlink(lockPath); then the value is
\* returned, or the error reaches catch (error): rethrown unless its code
\* is EEXIST, in which case the catch goes on to its timeout test.
ReleaseAndCatch(p) ==
    /\ pc[p] = "exit"
    /\ lock' = NoMarker
    /\ SetPc(p, IF loc[p].outcome = "threwEEXIST" THEN "held" ELSE "released")
    /\ UNCHANGED <<loc, notLock>>

NextLockThrow ==
    \/ \E p \in Procs : LockBegin(p)
    \/ \E p \in Procs : LockOpen(p)
    \/ \E p \in Procs : LockMeta(p)
    \/ \E p \in Procs : OperationRun(p)
    \/ \E p \in Procs : OperationRaise(p)
    \/ \E p \in Procs : ReleaseAndCatch(p)
    \/ \E p \in Procs : LockTimeout(p)
    \/ \E p \in Procs : LockStat(p)
    \/ \E p \in Procs : LockBreak(p)
    \/ \E p \in Procs : LockDelay(p)
    \/ \E p \in Procs : LockDelayEnd(p)
    \/ TickLock

SpecLockThrow == InitLockThrow /\ [][NextLockThrow]_vars

\* C35: a call of withFileLock starts its operation at most once, and once
\* the operation has ended by throwing, whatever the error, the call only
\* releases the marker and ends with that error: it does not go back to
\* acquiring and does not end with another error.
C35_RunsOnce ==
    \A p \in Procs :
        /\ loc[p].runs <= 1
        /\ loc[p].outcome \in {"threw", "threwEEXIST"} => pc[p] \in {"exit", "released"}

\* C36: the record an add or update appends is accepted by the schema
\* validation of the next read: the appended line is not reported invalid
\* and a get of the returned item's id returns the item the write returned.
C36_AppendedValid ==
    [][(last'.op \in {"memory.add", "memory.update"} /\ last'.result.ok /\ log' # log) =>
          \A new \in {FileContent(log')} :
              /\ ~parseLineError(new[Len(new)])
              /\ getMemoryItem(new, last'.result.item.id) = last'.result.item]_vars


(***************************************************************************)
(* SpecSync: memory.add, memory.update, memory.delete and memory.prune     *)
(* (not a dry run) through the handlers, one call at a time, from an empty *)
(* log and no index file, a day after the epoch; the index each call       *)
(* leaves is set against buildIndex (src/unnamed/part_001 102-112) of the  *)
(* latest view.                                                            *)
(***************************************************************************)
SyncAddArgs ==
    {[BaseAddArgs EXCEPT !.tags = Arr(tags)] : tags \in {<<TagX>>, <<TagY>>}}

SyncUpdateArgs ==
    {[id |-> Uuid(id), patch |-> Obj([tags |-> Arr(<<TagY>>)])] : id \in {1, 2}}

SyncDeleteArgs == [id : {Uuid(1), Uuid(2)}]

SyncPruneArgs == [dryRun |-> Bool(FALSE), scope |-> Undefined]

SyncConfig ==
    [prune |-> [maxPerScope |-> 2, deleteOlderThanDays |-> 9999,
                compressOlderThanDays |-> 9999, dedupe |-> TRUE],
     summarization |-> [maxContentLength |-> 4, olderThanDays |-> 1]]

InitSync ==
    /\ now = DayMs
    /\ nextUuid = 0
    /\ log = Missing
    /\ tmpFile = Missing
    /\ bakFile = Missing
    /\ corruptFile = Missing
    /\ index = Missing
    /\ lock = NoMarker
    /\ last = NoCall
    /\ resolved = NotResolved
    /\ pc = [p \in Procs |-> "idle"]
    /\ loc = [p \in Procs |-> NoLocals]

\* A memory.prune call that applies its actions, while the log has room.
SyncPrune ==
    /\ Len(FileContent(log)) <= MaxLog
    /\ HandlePrune(SyncPruneArgs, SyncConfig)

\* The clock advances between calls.
TickSync ==
    /\ now < DayMs + MaxTime
    /\ now' = now + 1
    /\ UNCHANGED <<nextUuid, log, tmpFile, bakFile, corruptFile, index, lock, last, resolved, pc, loc>>

NextSync ==
    \/ \E args \in SyncAddArgs : HandleAdd(args)
    \/ \E args \in SyncUpdateArgs : HandleUpdate(args)
    \/ \E args \in SyncDeleteArgs : HandleDelete(args)
    \/ SyncPrune
    \/ TickSync

SpecSync == InitSync /\ [][NextSync]_vars

\* The buckets of an index document.
Buckets(doc) == [byScope |-> doc.byScope, byTag |-> doc.byTag, byScopeTag |-> doc.byScopeTag]

\* C37: the index the calls have maintained has the buckets, with the ids
\* in the order, of buildIndex applied to the latest view of the log.
C37_IndexMatchesRebuild ==
    index.exists =>
        Buckets(index.doc) = Buckets(buildIndex(readLatestItems(FileContent(log)), now))


(***************************************************************************)
(* SpecDedupe: memory.prune on logs of MaxPruneItems items of one scope    *)
(* whose contents agree up to case and white space, with tags x, y or z.   *)
(***************************************************************************)
TagZ == Str(<<"z">>)

DedupeSamples(id) ==
    {PruneItem(id, content, <<tag>>, 2, 10, Null) :
        content \in {<<"X", " ", "x">>, <<"x", " ", " ", "x">>},
        tag \in {TagX, TagY, TagZ}}

\* The logs of n such items with the ids 1..n.
RECURSIVE DedupeLines(_)
DedupeLines(n) ==
    IF n = 0 THEN {<<>>}
    ELSE {Append(lines, JSONStringify(item)) :
             lines \in DedupeLines(n - 1), item \in DedupeSamples(n)}

InitDedupe ==
    /\ now = 3 * DayMs
    /\ nextUuid = MaxPruneItems
    /\ log \in {File(lines) : lines \in DedupeLines(MaxPruneItems)}
    /\ tmpFile = Missing
    /\ bakFile = Missing
    /\ corruptFile = Missing
    /\ index = IndexAfterAdds(readAllItems(FileContent(log)))
    /\ lock = NoMarker
    /\ last = NoCall
    /\ resolved = NotResolved
    /\ pc = [p \in Procs |-> "idle"]
    /\ loc = [p \in Procs |-> NoLocals]

SpecDedupe == InitDedupe /\ [][NextPrune]_vars

\* The positions of the live items of the list that share the scope and
\* the content fingerprint of the item at position i.
GroupOf(items, i) ==
    {j \in 1..Len(items) :
        /\ ~Truthy(items[j].deleted)
        /\ items[j].scope = items[i].scope
        /\ contentFingerprint(items[j].content) = contentFingerprint(items[i].content)}

\* C38: once a prune with deduplication has applied its actions in the
\* order returned, the first item of every group of three or more live
\* items of one scope with the same content fingerprint has as tags the
\* union of the tags of the group.
C38_GroupTagsMerged ==
    [][(/\ last'.op = "memory.prune"
        /\ last'.result.ok
        /\ ~pruneDryRun(last'.args)
        /\ last'.config.prune.dedupe)
       => \A before \in {pruneItems(FileContent(log), last'.args)} :
          \A i \in 1..Len(before) :
             \A group \in {GroupOf(before, i)} :
                (i \in group /\ Cardinality(group) >= 3 /\ \A j \in group : i <= j)
                => TagSet(getMemoryItem(FileContent(log'), before[i].id))
                       = UNION {TagSet(before[j]) : j \in group}]_vars


(***************************************************************************)
(* SpecPruneAgain: memory.prune, not a dry run, called again and again     *)
(* under one configuration with no other write in between, on logs of up   *)
(* to MaxPruneItems items of one scope.                                    *)
(***************************************************************************)
AgainSamples(id) ==
    {PruneItem(id, <<"X", " ", "x">>, <<TagX>>, 0, 50, Null),
     PruneItem(id, <<"X", " ", "x">>, <<TagX>>, 2, 10, Null),
     PruneItem(id, <<"c", "c", "c", ".", "c">>, <<TagX>>, 0, 10, Null),
     PruneItem(id, <<"c", "c", "c", ".", "c">>, <<TagY>>, 2, 10, Null)}

\* The logs of n such items with the ids 1..n.
RECURSIVE AgainLines(_)
AgainLines(n) ==
    IF n = 0 THEN {<<>>}
    ELSE {Append(lines, JSONStringify(item)) :
             lines \in AgainLines(n - 1), item \in AgainSamples(n)}

AgainArgs == [dryRun |-> Bool(FALSE), scope |-> Undefined]

AgainConfigs ==
    [prune : [maxPerScope : {1, 2}, deleteOlderThanDays : {2, 9999},
              compressOlderThanDays : {1, 2}, dedupe : BOOLEAN],
     summarization : [maxContentLength : {4}, olderThanDays : {1}]]

InitPruneAgain ==
    /\ now = 3 * DayMs
    /\ nextUuid = MaxPruneItems
    /\ log \in {File(lines) : lines \in UNION {AgainLines(n) : n \in 0..MaxPruneItems}}
    /\ tmpFile = Missing
    /\ bakFile = Missing
    /\ corruptFile = Missing
    /\ index = IndexAfterAdds(readAllItems(FileContent(log)))
    /\ lock = NoMarker
    /\ last = NoCall
    /\ resolved = NotResolved
    /\ pc = [p \in Procs |-> "idle"]
    /\ loc = [p \in Procs |-> NoLocals]

\* The first call of memory.prune, or the next one under the configuration
\* of the call before; the calls stop once every item has been rewritten
\* twice over.
PruneAgain ==
    \E config \in AgainConfigs :
       /\ \/ last = NoCall
          \/ last.op = "memory.prune" /\ config = last.config
       /\ Len(FileContent(log)) <= 3 * MaxPruneItems
       /\ HandlePrune(AgainArgs, config)

NextPruneAgain == PruneAgain

SpecPruneAgain == InitPruneAgain /\ [][NextPruneAgain]_vars

\* C39: a prune that directly follows a prune that has been applied, under
\* the same configuration, proposes no action.
C39_SecondRunIdle ==
    [][(/\ last.op = "memory.prune" /\ last.result.ok
        /\ last'.op = "memory.prune" /\ last'.result.ok)
       => last'.result.actions = <<>>]_vars


(***************************************************************************)
(* SpecRepairAgain: repairMemoryFile run to its end, a read of the primary *)
(* log (readAllItems), then repairMemoryFile again with compact not        *)
(* requested, by one process that does not die.                            *)
(***************************************************************************)
RepairCalls == {[op |-> "repair", compact |-> c, quarantine |-> q] : c, q \in BOOLEAN}

InitRepairAgain ==
    /\ now = 0
    /\ nextUuid = 0
    /\ log \in {Missing} \cup CompactLogs
    /\ tmpFile = Missing
    /\ bakFile = Missing
    /\ corruptFile = Missing
    /\ index = Missing
    /\ lock = NoMarker
    /\ last = NoCall
    /\ resolved = NotResolved
    /\ pc = [p \in Procs |-> "idle"]
    /\ loc = [p \in Procs |-> NoLocals]

\* The process calls repairMemoryFile.
RepairCall(p) ==
    /\ pc[p] = "idle"
    /\ \E call \in RepairCalls :
          loc' = [loc EXCEPT ![p] = RewriteLocals(call, FileContent(log))]
    /\ SetPc(p, "lock")
    /\ UNCHANGED <<log, tmpFile, bakFile, corruptFile, notFiles>>

\* readAllItems(memoryFile) once the repair has returned: the items and the
\* number of invalid lines.
ReadRepaired(p) ==
    /\ pc[p] = "done"
    /\ ~resolved.done
    /\ log' = ensureFile(log)
    /\ resolved' = [done |-> TRUE,
                    items |-> readAllItems(FileContent(log)),
                    invalidLines |-> readAllStats(FileContent(log)).invalidLines]
    /\ UNCHANGED <<now, nextUuid, tmpFile, bakFile, corruptFile, index, lock, last, pc, loc>>

\* The process calls repairMemoryFile again, with the quarantine option of
\* the first call and compact not requested.
RepairAgain(p) ==
    /\ pc[p] = "done"
    /\ resolved.done
    /\ loc' = [loc EXCEPT ![p] = RewriteLocals([op |-> "repair", compact |-> FALSE,
                                                quarantine |-> loc[p].quarantine],
                                               FileContent(log))]
    /\ SetPc(p, "lock")
    /\ UNCHANGED <<log, tmpFile, bakFile, corruptFile, notFiles>>

NextRepairAgain ==
    \/ RepairCall(1)
    \/ LockBegin(1)
    \/ LockOpen(1)
    \/ LockMeta(1)
    \/ RepairRead(1)
    \/ QuarantineWrite(1)
    \/ WriteTemp(1)
    \/ RenameToBackup(1)
    \/ RenameToPrimary(1)
    \/ LockRelease(1)
    \/ RewriteReturn(1)
    \/ ReadRepaired(1)
    \/ RepairAgain(1)

SpecRepairAgain == InitRepairAgain /\ [][NextRepairAgain]_vars

=============================================================================
